---- MODULE Spec2Model ----
(***************************************************************************)
(* Control plane of the CTP penetration test kit.                          *)
(*                                                                         *)
(*   - the single-slot case runner of the worker process                   *)
(*     (src/src/worker.py, WorkerController) and of the in-process task    *)
(*     manager (src/src/manager.py, TestManager);                          *)
(*   - the risk monitor (src/src/core/risk.py, TestRiskManager).           *)
(*                                                                         *)
(* Threads are modelled as program counters; one action is one atomic step *)
(* of one thread (one lock operation, one queue operation, one handler).   *)
(***************************************************************************)
EXTENDS Integers, Sequences, FiniteSets, TLC

None == "None"

(***************************************************************************)
(* Inputs of the case runner.                                              *)
(***************************************************************************)
\* RPC threads that may be inside WorkerController.run_case at the same time
Callers == {"rpc1", "rpc2"}

\* threads that may be inside TestManager.run_task at the same time
MgrCallers == {"web1", "web2"}

\* ThreadPoolExecutor(max_workers=1): worker.py line 104, manager.py line 31
max_workers == 1

PoolThreads == 1..max_workers

\* keys of WorkerController._case_map (two of the 26 entries)
KnownCases == {"2.1.1", "2.1.2.1"}

\* case ids as they arrive in a RUN_CASE payload: text with optional
\* surrounding whitespace; "" is what a missing case_id becomes
RawCaseIds ==
    [pad : BOOLEAN, text : KnownCases \cup {"9.9.9", ""}]

\* messages of the exceptions a scenario function may raise
ErrorMessages == {"gateway down", "timeout"}

\* (case_id or "").strip()
strip(raw) == raw.text

\* self._case_map().get(case_id): the scenario function, or None
case_map_get(case_id) == IF case_id \in KnownCases THEN case_id ELSE None

(***************************************************************************)
(* Inputs of the risk monitor.                                             *)
(***************************************************************************)
\* cap on the counted events (orders, cancels, cancel registrations) of one
\* counting epoch
MaxEvents == 3

\* the threshold value an operator sets to enable an alert
MaxThreshold == 2

\* 0 disables a threshold
ThresholdValues == {0, MaxThreshold}

\* an optional threshold argument of set_thresholds: omitted (None), an
\* integer, or a value int() rejects
NoneArg == [kind |-> "none", val |-> 0]

BadArg == [kind |-> "bad", val |-> 0]

IntArg(n) == [kind |-> "int", val |-> n]

\* what an operator sends: each threshold omitted or an integer
ThresholdArgs == {NoneArg} \cup {IntArg(n) : n \in ThresholdValues}

TEST_SYMBOL == "IF2602"

\* Prices are exact decimals: units of 1e-4 plus a residue in units of 1e-11,
\* one digit below the 10 decimals the order signature keeps
\* (0 <= sub < SubPerUnit).
SubPerUnit == 10000000

\* 1e-6 in units of 1e-11: the tolerance of the tick gate
EpsSub == 100000

\* 1e-10 in units of 1e-11: the rounding grain of the order signature
RoundGrain == 10

Price(units, sub) == [units |-> units, sub |-> sub]

\* read_config.SAFE_BUY_PRICE: 4700.0, the price the scenarios send
SAFE_BUY_PRICE == 47000000

\* the price ticks a contract pushed by the gateway may carry (0.2)
PriceTicks == {2000}

OrderReq(symbol, volume, price, reference) ==
    [symbol |-> symbol, direction |-> "LONG", offset |-> "OPEN",
     type |-> "LIMIT", volume |-> volume, price |-> price,
     reference |-> reference]

\* the order requests the scenarios submit
OrderRequests ==
    { OrderReq(TEST_SYMBOL, 1, Price(SAFE_BUY_PRICE, 0), ""),
      OrderReq(TEST_SYMBOL, 1, Price(SAFE_BUY_PRICE, 4), ""),
      OrderReq(TEST_SYMBOL, 1, Price(SAFE_BUY_PRICE, 6), ""),
      OrderReq("INVALID_CODE", 1, Price(SAFE_BUY_PRICE, 0), ""),
      OrderReq(TEST_SYMBOL, 10000, Price(SAFE_BUY_PRICE, 0), ""),
      OrderReq(TEST_SYMBOL, 10000, Price(SAFE_BUY_PRICE, 0), "FundTest") }

\* the same with a price half a tick off the grid of the contract
GateOrderRequests ==
    OrderRequests \cup
        { OrderReq(TEST_SYMBOL, 1, Price(SAFE_BUY_PRICE + (tick \div 2), 0), "") :
             tick \in PriceTicks }

\* cancel requests; orderid "" stands for a request without an order id
CancelReq(orderid, present) ==
    [orderid |-> orderid, has_orderid |-> present, symbol |-> TEST_SYMBOL,
     exchange |-> "CFFEX"]

CancelRequests ==
    { CancelReq("1", TRUE), CancelReq("", TRUE), CancelReq("", FALSE) }

\* vt_orderids: one the session registers, one of an earlier process
SessionOrderId == "CTPTEST.1"

ForeignOrderId == "CTPTEST.7"

OrderIds == {SessionOrderId, ForeignOrderId}

\* a Python dict as a function over its present keys
EmptyDict == [k \in {} |-> 0]

dict_get(d, k, default) == IF k \in DOMAIN d THEN d[k] ELSE default

\* an item assignment that is lost
dict_set_dropped(d, k, v) == d

\* d[k] = v
dict_set(d, k, v) == [x \in (DOMAIN d) \cup {k} |-> IF x = k THEN v ELSE d[x]]

RECURSIVE SumOver(_, _)
SumOver(d, keys) ==
    IF keys = {} THEN 0
    ELSE LET k == CHOOSE x \in keys : TRUE
         IN  d[k] + SumOver(d, keys \ {k})

\* total of the occurrence counts of a signature dict
dict_total(d) == SumOver(d, DOMAIN d)

VARIABLES
    \* ---- WorkerController --------------------------------------------
    task_lock,              \* threading.Lock: TRUE = locked
    work_queue,             \* executor's queue of submitted (case_id, func)
    pool_pc,                \* pool thread -> position inside _wrapped_case
    pool_case,              \* pool thread -> case_id argument
    pool_exc,               \* pool thread -> message of the caught exception
    current_case_id,
    last_error,
    last_case_finished_at,  \* None, or "set" once a timestamp was stored
    call_pc,                \* caller -> position inside run_case
    call_case,              \* caller -> stripped case id
    resp,                   \* caller -> RPC response of RUN_CASE
    \* ---- observations of the run (not program state) ------------------
    outcome,                \* how the last scenario body ended
    seen_busy,              \* caller -> lock state seen when it was handled
    issued_idle,            \* caller -> lock was free when the call began
    overlapped,             \* caller -> another call was in flight meanwhile
    released,               \* caller -> a scenario released the lock meanwhile
    \* ---- TestManager --------------------------------------------------
    mgr_task_lock,
    mgr_queue,
    mgr_pool_pc,
    mgr_call_pc,
    mgr_ret,
    \* ---- TestRiskManager ----------------------------------------------
    active,
    order_count,
    cancel_count,
    repeat_order_count,
    repeat_cancel_count,
    max_order_count,
    max_cancel_count,
    max_repeat_count,
    order_signature_count,
    cancel_signature_count,
    session_order_ids,
    last_log_order_count,
    last_log_cancel_count,
    warned_order_threshold,
    warned_cancel_threshold,
    warned_repeat_threshold,
    contract,               \* tester.contract (TestEngine.contract)
    \* ---- observations of the run (not program state) ------------------
    op,                     \* the last risk-monitor call, its arguments, result
    alerts,                 \* threshold alerts that call logged
    fresh,                  \* no set_thresholds since the counters were reset
    stage,                  \* progress of a stop / reject / restore / retry
    \* ---- TestEngine ---------------------------------------------------
    orders,                 \* vt_orderid -> the last OrderData received
    rejected_orders,        \* vt_orderid -> the rejected OrderData
    on_reject_callbacks,    \* _on_reject_callbacks, in registration order
    gateways,               \* main_engine.gateways: names of the gateways
    eng_op,                 \* observation: the last engine call and result
    \* ---- CommandServer ------------------------------------------------
    running,                \* CommandServer.running
    server_socket,          \* "listening" or "closed"
    srv_op,                 \* observation: the last connection and its reply
    \* ---- ProcessManager and the orchestrations of app.py ---------------
    process,                \* ProcessManager.process and its OS process
    disconnect_mode,        \* ProcessManager.disconnect_mode
    popen_count,            \* subprocess.Popen calls made so far
    orc,                    \* position of the running orchestration
    clock,                  \* time.time() of the dashboard process
    threads,                \* request threads inside ProcessManager methods
    live,                   \* pids of the worker processes that run
    risk_calls,             \* threads inside TestRiskManager methods
    sup_op                  \* observation: the last supervisor step

workerVars ==
    << task_lock, work_queue, pool_pc, pool_case, pool_exc, current_case_id,
       last_error, last_case_finished_at, call_pc, call_case, resp,
       outcome, seen_busy, issued_idle, overlapped, released >>

mgrVars == << mgr_task_lock, mgr_queue, mgr_pool_pc, mgr_call_pc, mgr_ret >>

riskVars ==
    << active, order_count, cancel_count, repeat_order_count,
       repeat_cancel_count, max_order_count, max_cancel_count,
       max_repeat_count, order_signature_count, cancel_signature_count,
       session_order_ids, last_log_order_count, last_log_cancel_count,
       warned_order_threshold, warned_cancel_threshold,
       warned_repeat_threshold, contract, op, alerts, fresh >>

engVars == << orders, rejected_orders, on_reject_callbacks, gateways, eng_op >>

srvVars == << running, server_socket, srv_op >>

supVars ==
    << process, disconnect_mode, popen_count, orc, clock, threads, live,
       risk_calls, sup_op >>

vars == << workerVars, mgrVars, riskVars, stage, engVars, srvVars, supVars >>

NoResp == [ok |-> FALSE, kind |-> "none", accepted |-> FALSE, error |-> None]

\* WorkerController.__init__
WorkerInit ==
    /\ task_lock = FALSE
    /\ work_queue = << >>
    /\ pool_pc = [t \in PoolThreads |-> "idle"]
    /\ pool_case = [t \in PoolThreads |-> None]
    /\ pool_exc = [t \in PoolThreads |-> None]
    /\ current_case_id = None
    /\ last_error = None
    /\ last_case_finished_at = None
    /\ call_pc = [c \in Callers |-> "idle"]
    /\ call_case = [c \in Callers |-> None]
    /\ resp = [c \in Callers |-> NoResp]
    /\ outcome = "none"
    /\ seen_busy = [c \in Callers |-> FALSE]
    /\ issued_idle = [c \in Callers |-> FALSE]
    /\ overlapped = [c \in Callers |-> FALSE]
    /\ released = [c \in Callers |-> FALSE]

\* TestManager.initialize
MgrInit ==
    /\ mgr_task_lock = FALSE
    /\ mgr_queue = << >>
    /\ mgr_pool_pc = [t \in PoolThreads |-> "idle"]
    /\ mgr_call_pc = [c \in MgrCallers |-> "idle"]
    /\ mgr_ret = [c \in MgrCallers |-> "none"]

NoContract == [known |-> FALSE, symbol |-> "", pricetick |-> 0]

\* TestRiskManager.__init__ (and TestEngine.__init__ for contract); the
\* thresholds are those of config.yaml (read_config.RISK_THRESHOLDS), drawn
\* from the set configured
RiskStart(configured) ==
    /\ active = TRUE
    /\ order_count = 0
    /\ cancel_count = 0
    /\ repeat_order_count = 0
    /\ repeat_cancel_count = 0
    /\ max_order_count \in configured
    /\ max_cancel_count \in configured
    /\ max_repeat_count \in configured
    /\ order_signature_count = EmptyDict
    /\ cancel_signature_count = EmptyDict
    /\ session_order_ids = {}
    /\ last_log_order_count = -1
    /\ last_log_cancel_count = -1
    /\ warned_order_threshold = FALSE
    /\ warned_cancel_threshold = FALSE
    /\ warned_repeat_threshold = FALSE
    /\ contract = NoContract
    /\ op = [name |-> "init"]
    /\ alerts = {}
    /\ fresh = TRUE

RiskInit == RiskStart(ThresholdValues)

\* no stop has been tried yet
NoStage == [s |-> "idle"]

\* TestEngine.gateway_name, engine.py line 30
gateway_name == "CTPTEST"

\* TestEngine.__init__, engine.py lines 26-44
EngInit ==
    /\ gateways = {gateway_name}
    /\ orders = EmptyDict
    /\ rejected_orders = EmptyDict
    /\ on_reject_callbacks = << >>
    /\ eng_op = [name |-> "init"]

\* CommandServer.__init__, server.py lines 12-18
SrvInit ==
    /\ running = TRUE
    /\ server_socket = "none"
    /\ srv_op = [kind |-> "init"]

\* a Popen handle and the OS process behind it: os is "running" or "dead",
\* returncode is None until poll() has collected the exit status
Popen(pid) == [pid |-> pid, os |-> "running", returncode |-> None]

\* self.process = None
NoProcess == [pid |-> 0, os |-> "none", returncode |-> None]

NoOrchestration == [pc |-> "idle"]

\* the request threads of the dashboard (async_mode='threading', app.py
\* line 26)
RequestThreads == {"r1", "r2"}

\* a request thread outside the ProcessManager
ThreadIdle == [pc |-> "idle", force |-> FALSE, pid |-> 0]

\* the threads that reach the risk monitor: the pool thread that runs the
\* scenario (check_order), the gateway's callback thread
\* (on_order_cancelled) and the RPC thread (reset_counters, set_thresholds)
RiskThreads == {"scenario", "callback", "rpc"}

\* a thread outside the risk monitor
CallIdle == [pc |-> "idle", n |-> 0]

\* ProcessManager.__init__, app.py lines 35-37
SupInit ==
    /\ process = NoProcess
    /\ disconnect_mode = FALSE
    /\ popen_count = 0
    /\ orc = NoOrchestration
    /\ clock = 0
    /\ threads = [t \in RequestThreads |-> ThreadIdle]
    /\ live = {}
    /\ risk_calls = [t \in RiskThreads |-> CallIdle]
    /\ sup_op = [name |-> "init"]

RestInit == stage = NoStage /\ EngInit /\ SrvInit /\ SupInit

Init == WorkerInit /\ MgrInit /\ RiskInit /\ RestInit

\* one configuration: every threshold enabled
InitOneConfig ==
    WorkerInit /\ MgrInit /\ RiskStart({MaxThreshold}) /\ RestInit

(***************************************************************************)
(* WorkerController.run_case, one RPC thread c.                            *)
(***************************************************************************)
InFlight(c) == call_pc[c] \in {"acquire", "submit"}

\* a handler that reports every call as accepted
RespAlwaysAccepted(b) == [ok |-> TRUE, kind |-> "data", accepted |-> TRUE, error |-> None]

\* handle_rpc_request wraps the value or the exception of run_case
RespAccepted(b) == [ok |-> TRUE, kind |-> "data", accepted |-> b, error |-> None]

RespError(msg) == [ok |-> FALSE, kind |-> "error", accepted |-> FALSE, error |-> msg]

\* a lock whose acquire never fails
acquire_always(lock) == << TRUE, TRUE >>

\* task_lock.acquire(blocking=False): <<acquired, lock afterwards>>
acquire_nonblocking(lock) == IF lock THEN << FALSE, TRUE >> ELSE << TRUE, TRUE >>

\* lines 216-219: strip the id, look the scenario up, raise on a miss
RunCaseBegin(c, raw) ==
    /\ call_pc[c] = "idle"
    /\ LET case_id == strip(raw)
           func == case_map_get(case_id)
       IN  /\ call_case' = [call_case EXCEPT ![c] = case_id]
           /\ IF func = None
                 THEN /\ call_pc' = [call_pc EXCEPT ![c] = "done"]
                      /\ resp' = [resp EXCEPT ![c] = RespError("unknown case")]
                 ELSE /\ call_pc' = [call_pc EXCEPT ![c] = "acquire"]
                      /\ resp' = [resp EXCEPT ![c] = NoResp]
    /\ seen_busy' = [seen_busy EXCEPT ![c] = task_lock]
    /\ issued_idle' = [issued_idle EXCEPT ![c] = ~task_lock]
    /\ overlapped' = [d \in Callers |->
                        IF d = c THEN \E e \in Callers \ {c} : InFlight(e)
                        ELSE overlapped[d] \/ InFlight(d)]
    /\ released' = [released EXCEPT ![c] = FALSE]
    /\ UNCHANGED << task_lock, work_queue, pool_pc, pool_case, pool_exc,
                    current_case_id, last_error, last_case_finished_at,
                    outcome >>

\* run_case with a blocking acquire: the caller waits for the lock
RunCaseAcquireBlocking(c) ==
    /\ call_pc[c] = "acquire"
    /\ ~task_lock
    /\ task_lock' = TRUE
    /\ call_pc' = [call_pc EXCEPT ![c] = "submit"]
    /\ seen_busy' = [seen_busy EXCEPT ![c] = task_lock]
    /\ UNCHANGED << work_queue, pool_pc, pool_case, pool_exc, current_case_id,
                    last_error, last_case_finished_at, call_case, resp,
                    outcome, issued_idle, overlapped, released >>

\* lines 221-222: non-blocking acquire; a miss returns False at once
RunCaseAcquire(c) ==
    /\ call_pc[c] = "acquire"
    /\ LET r == acquire_nonblocking(task_lock)
       IN  /\ task_lock' = r[2]
           /\ IF r[1]
                 THEN /\ call_pc' = [call_pc EXCEPT ![c] = "submit"]
                      /\ resp' = resp
                 ELSE /\ call_pc' = [call_pc EXCEPT ![c] = "done"]
                      /\ resp' = [resp EXCEPT ![c] = RespAccepted(FALSE)]
    /\ seen_busy' = [seen_busy EXCEPT ![c] = task_lock]
    /\ UNCHANGED << work_queue, pool_pc, pool_case, pool_exc, current_case_id,
                    last_error, last_case_finished_at, call_case, outcome, issued_idle, overlapped, released >>

\* lines 224-225: hand the scenario to the pool and return True
RunCaseSubmit(c) ==
    /\ call_pc[c] = "submit"
    /\ work_queue' = Append(work_queue, call_case[c])
    /\ call_pc' = [call_pc EXCEPT ![c] = "done"]
    /\ resp' = [resp EXCEPT ![c] = RespAccepted(TRUE)]
    /\ UNCHANGED << task_lock, pool_pc, pool_case, pool_exc, current_case_id,
                    last_error, last_case_finished_at, call_case, outcome, seen_busy, issued_idle, overlapped, released >>

\* the response has been sent; the thread is free for the next request
RunCaseReturn(c) ==
    /\ call_pc[c] = "done"
    /\ call_pc' = [call_pc EXCEPT ![c] = "idle"]
    /\ call_case' = [call_case EXCEPT ![c] = None]
    /\ resp' = [resp EXCEPT ![c] = NoResp]
    /\ seen_busy' = [seen_busy EXCEPT ![c] = FALSE]
    /\ issued_idle' = [issued_idle EXCEPT ![c] = FALSE]
    /\ overlapped' = [overlapped EXCEPT ![c] = FALSE]
    /\ released' = [released EXCEPT ![c] = FALSE]
    /\ UNCHANGED << task_lock, work_queue, pool_pc, pool_case, pool_exc,
                    current_case_id, last_error, last_case_finished_at,
                    outcome >>

(***************************************************************************)
(* WorkerController._wrapped_case on pool thread t.                        *)
(***************************************************************************)
\* the pool thread takes the next submitted scenario from the queue
PoolTake(t) ==
    /\ pool_pc[t] = "idle"
    /\ work_queue # << >>
    /\ pool_case' = [pool_case EXCEPT ![t] = Head(work_queue)]
    /\ work_queue' = Tail(work_queue)
    /\ pool_pc' = [pool_pc EXCEPT ![t] = "entry"]
    /\ UNCHANGED << task_lock, pool_exc, current_case_id, last_error,
                    last_case_finished_at, call_pc, call_case, resp, outcome, seen_busy, issued_idle, overlapped, released >>

\* _wrapped_case that does not clear last_error on entry
WrappedCaseEntryKeepsError(t) ==
    /\ pool_pc[t] = "entry"
    /\ current_case_id' = pool_case[t]
    /\ pool_pc' = [pool_pc EXCEPT ![t] = "body"]
    /\ UNCHANGED << task_lock, work_queue, pool_case, pool_exc, last_error,
                    last_case_finished_at, call_pc, call_case, resp,
                    outcome, seen_busy, issued_idle, overlapped, released >>

\* lines 228-230
WrappedCaseEntry(t) ==
    /\ pool_pc[t] = "entry"
    /\ current_case_id' = pool_case[t]
    /\ last_error' = None
    /\ pool_pc' = [pool_pc EXCEPT ![t] = "body"]
    /\ UNCHANGED << task_lock, work_queue, pool_case, pool_exc,
                    last_case_finished_at, call_pc, call_case, resp, outcome, seen_busy, issued_idle, overlapped, released >>

\* lines 231-243: the scenario function returns
WrappedCaseBodyReturns(t) ==
    /\ pool_pc[t] = "body"
    /\ pool_pc' = [pool_pc EXCEPT ![t] = "finally"]
    /\ outcome' = "ok"
    /\ UNCHANGED << task_lock, work_queue, pool_case, pool_exc,
                    current_case_id, last_error, last_case_finished_at,
                    call_pc, call_case, resp, seen_busy, issued_idle,
                    overlapped, released >>

\* lines 231-244: the scenario function (or an emit) raises Exception(msg)
WrappedCaseBodyRaises(t, msg) ==
    /\ pool_pc[t] = "body"
    /\ pool_exc' = [pool_exc EXCEPT ![t] = msg]
    /\ pool_pc' = [pool_pc EXCEPT ![t] = "except"]
    /\ outcome' = msg
    /\ UNCHANGED << task_lock, work_queue, pool_case, current_case_id,
                    last_error, last_case_finished_at, call_pc, call_case,
                    resp, seen_busy, issued_idle, overlapped,
                    released >>

\* _wrapped_case whose release sits at the end of the try block instead of
\* in finally: the exception path leaves without releasing
WrappedCaseExceptNoRelease(t) ==
    /\ pool_pc[t] = "except"
    /\ last_error' = pool_exc[t]
    /\ last_case_finished_at' = "set"
    /\ current_case_id' = None
    /\ pool_pc' = [pool_pc EXCEPT ![t] = "idle"]
    /\ pool_case' = [pool_case EXCEPT ![t] = None]
    /\ pool_exc' = [pool_exc EXCEPT ![t] = None]
    /\ UNCHANGED << task_lock, work_queue, call_pc, call_case, resp,
                    outcome, seen_busy, issued_idle, overlapped, released >>

\* lines 244-252: self.last_error = str(e)
WrappedCaseExcept(t) ==
    /\ pool_pc[t] = "except"
    /\ last_error' = pool_exc[t]
    /\ pool_pc' = [pool_pc EXCEPT ![t] = "finally"]
    /\ UNCHANGED << task_lock, work_queue, pool_case, pool_exc,
                    current_case_id, last_case_finished_at, call_pc,
                    call_case, resp, outcome, seen_busy, issued_idle,
                    overlapped, released >>

\* lines 253-255
WrappedCaseFinally(t) ==
    /\ pool_pc[t] = "finally"
    /\ last_case_finished_at' = "set"
    /\ current_case_id' = None
    /\ pool_pc' = [pool_pc EXCEPT ![t] = "release"]
    /\ UNCHANGED << task_lock, work_queue, pool_case, pool_exc, last_error,
                    call_pc, call_case, resp, outcome, seen_busy,
                    issued_idle, overlapped, released >>

\* line 256: self.task_lock.release(), then the pool thread is idle again
WrappedCaseRelease(t) ==
    /\ pool_pc[t] = "release"
    /\ task_lock' = FALSE
    /\ pool_pc' = [pool_pc EXCEPT ![t] = "idle"]
    /\ pool_case' = [pool_case EXCEPT ![t] = None]
    /\ pool_exc' = [pool_exc EXCEPT ![t] = None]
    /\ released' = [c \in Callers |-> released[c] \/ InFlight(c)]
    /\ UNCHANGED << work_queue, current_case_id, last_error,
                    last_case_finished_at, call_pc, call_case, resp, outcome, seen_busy, issued_idle, overlapped >>

\* WorkerController.get_status: a read-only projection (the fields the case
\* runner owns; gateway_exists and risk are reported by other components)
get_status ==
    [state |-> "RUNNING", busy |-> task_lock,
     current_case_id |-> current_case_id, last_error |-> last_error,
     last_case_finished_at |-> last_case_finished_at]

PoolStep(t) ==
    \/ PoolTake(t)
    \/ WrappedCaseEntry(t)
    \/ WrappedCaseBodyReturns(t)
    \/ \E msg \in ErrorMessages : WrappedCaseBodyRaises(t, msg)
    \/ WrappedCaseExcept(t)
    \/ WrappedCaseFinally(t)
    \/ WrappedCaseRelease(t)

CallerStep(c) ==
    \/ \E raw \in RawCaseIds : RunCaseBegin(c, raw)
    \/ RunCaseAcquire(c)
    \/ RunCaseSubmit(c)
    \/ RunCaseReturn(c)

WorkerNext ==
    /\ \/ \E c \in Callers : CallerStep(c)
       \/ \E t \in PoolThreads : PoolStep(t)
    /\ UNCHANGED << mgrVars, riskVars, stage, engVars, srvVars, supVars >>

(***************************************************************************)
(* TestManager.run_task on thread c and _wrapped_task on pool thread t.    *)
(***************************************************************************)
\* lines 47 and 55-56: non-blocking acquire, busy message on a miss
MgrRunTaskAcquire(c) ==
    /\ mgr_call_pc[c] = "idle"
    /\ LET r == acquire_nonblocking(mgr_task_lock)
       IN  /\ mgr_task_lock' = r[2]
           /\ IF r[1]
                 THEN /\ mgr_call_pc' = [mgr_call_pc EXCEPT ![c] = "submit"]
                      /\ mgr_ret' = mgr_ret
                 ELSE /\ mgr_call_pc' = [mgr_call_pc EXCEPT ![c] = "done"]
                      /\ mgr_ret' = [mgr_ret EXCEPT ![c] = "busy"]
    /\ UNCHANGED << mgr_queue, mgr_pool_pc >>

\* lines 48-51: the pool takes the task
MgrRunTaskSubmit(c) ==
    /\ mgr_call_pc[c] = "submit"
    /\ mgr_queue' = Append(mgr_queue, "task")
    /\ mgr_call_pc' = [mgr_call_pc EXCEPT ![c] = "done"]
    /\ mgr_ret' = [mgr_ret EXCEPT ![c] = "started"]
    /\ UNCHANGED << mgr_task_lock, mgr_pool_pc >>

\* lines 52-54: executor.submit raises; the lock is given back
MgrRunTaskSubmitFails(c) ==
    /\ mgr_call_pc[c] = "submit"
    /\ mgr_task_lock' = FALSE
    /\ mgr_call_pc' = [mgr_call_pc EXCEPT ![c] = "done"]
    /\ mgr_ret' = [mgr_ret EXCEPT ![c] = "submit failed"]
    /\ UNCHANGED << mgr_queue, mgr_pool_pc >>

\* the caller has its (bool, msg) pair
MgrRunTaskReturn(c) ==
    /\ mgr_call_pc[c] = "done"
    /\ mgr_call_pc' = [mgr_call_pc EXCEPT ![c] = "idle"]
    /\ mgr_ret' = [mgr_ret EXCEPT ![c] = "none"]
    /\ UNCHANGED << mgr_task_lock, mgr_queue, mgr_pool_pc >>

\* the pool thread takes the submitted task
MgrPoolTake(t) ==
    /\ mgr_pool_pc[t] = "idle"
    /\ mgr_queue # << >>
    /\ mgr_queue' = Tail(mgr_queue)
    /\ mgr_pool_pc' = [mgr_pool_pc EXCEPT ![t] = "body"]
    /\ UNCHANGED << mgr_task_lock, mgr_call_pc, mgr_ret >>

\* lines 62-69: the task returns, or raises and the exception is logged
MgrWrappedTaskBody(t, raised) ==
    /\ mgr_pool_pc[t] = "body"
    /\ mgr_pool_pc' = [mgr_pool_pc EXCEPT ![t] = "finally"]
    /\ UNCHANGED << mgr_task_lock, mgr_queue, mgr_call_pc, mgr_ret >>

\* lines 70-72: self.task_lock.release()
MgrWrappedTaskRelease(t) ==
    /\ mgr_pool_pc[t] = "finally"
    /\ mgr_task_lock' = FALSE
    /\ mgr_pool_pc' = [mgr_pool_pc EXCEPT ![t] = "idle"]
    /\ UNCHANGED << mgr_queue, mgr_call_pc, mgr_ret >>

MgrNext ==
    /\ \/ \E c \in MgrCallers :
            \/ MgrRunTaskAcquire(c)
            \/ MgrRunTaskSubmit(c)
            \/ MgrRunTaskSubmitFails(c)
            \/ MgrRunTaskReturn(c)
       \/ \E t \in PoolThreads :
            \/ MgrPoolTake(t)
            \/ \E raised \in BOOLEAN : MgrWrappedTaskBody(t, raised)
            \/ MgrWrappedTaskRelease(t)
    /\ UNCHANGED << workerVars, riskVars, stage, engVars, srvVars, supVars >>

\* The two case runners are separate programs (the worker process, and the
\* in-process manager): a run is a run of one of them.
TaskNext ==
    \/ MgrInit /\ WorkerNext
    \/ WorkerInit /\ MgrNext

SpecTask == InitOneConfig /\ [][TaskNext]_vars

\* the worker process alone
SpecWorker == InitOneConfig /\ [][WorkerNext]_vars

\* worker.py line 224 when executor.submit raises (the pool cannot start its
\* thread, or has been shut down): run_case has no try block, the exception
\* reaches handle_rpc_request (lines 371-372) and the lock stays as it is
RunCaseSubmitFails(c) ==
    /\ call_pc[c] = "submit"
    /\ call_pc' = [call_pc EXCEPT ![c] = "done"]
    /\ resp' = [resp EXCEPT ![c] = RespError("submit failed")]
    /\ UNCHANGED << task_lock, work_queue, pool_pc, pool_case, pool_exc,
                    current_case_id, last_error, last_case_finished_at,
                    call_case, outcome, seen_busy, issued_idle, overlapped,
                    released >>

SubmitNext ==
    /\ \/ \E c \in Callers : CallerStep(c)
       \/ \E c \in Callers : RunCaseSubmitFails(c)
       \/ \E t \in PoolThreads : PoolStep(t)
    /\ UNCHANGED << mgrVars, riskVars, stage, engVars, srvVars, supVars >>

\* the worker process with a pool that may refuse a submission
SpecSubmit == InitOneConfig /\ [][SubmitNext]_vars

(***************************************************************************)
(* TestRiskManager (src/src/core/risk.py).                                 *)
(***************************************************************************)
\* int(x or 0)
int_or_zero(x) == IF x = 0 THEN 0 ELSE x

\* get_thresholds, lines 194-199
get_thresholds ==
    [max_order_count |-> int_or_zero(max_order_count),
     max_cancel_count |-> int_or_zero(max_cancel_count),
     max_repeat_count |-> int_or_zero(max_repeat_count)]

\* _repeat_total, lines 74-75
repeat_total(repeat_order, repeat_cancel) == repeat_order + repeat_cancel

\* get_metrics, lines 201-208
get_metrics ==
    [order_count |-> order_count,
     cancel_count |-> cancel_count,
     repeat_order_count |-> repeat_order_count,
     repeat_cancel_count |-> repeat_cancel_count,
     repeat_total |-> repeat_total(repeat_order_count, repeat_cancel_count)]

\* round(float(price), 10): to the nearest multiple of 1e-10
round10(price) ==
    LET q == (price.sub + (RoundGrain \div 2)) \div RoundGrain
    IN  IF q * RoundGrain >= SubPerUnit
           THEN [units |-> price.units + 1, sub |-> 0]
           ELSE [units |-> price.units, sub |-> q * RoundGrain]

\* _order_signature, lines 61-72
order_signature(req) ==
    << req.symbol, req.direction, req.offset, req.type, req.volume,
       round10(req.price) >>

\* the signature tuple of register_cancel_request, lines 50-54
cancel_signature(req) ==
    << IF req.has_orderid THEN req.orderid ELSE "", req.symbol, req.exchange >>

\* a tick gate without the tolerance: exact multiples only
tick_ok_exact(price, tick) ==
    price.units % tick = 0 /\ price.sub = 0

\* lines 110-113: remainder = price % tick; the price passes when the
\* remainder is within 1e-6 of 0 or of tick
tick_ok(price, tick) ==
    LET r == price.units % tick
    IN  \/ r = 0 /\ price.sub < EpsSub
        \/ r = tick - 1 /\ SubPerUnit - price.sub < EpsSub

\* the gates without the emergency-stop test
check_order_gate_no_pause(req) ==
    IF req.symbol = "INVALID_CODE" \/ req.symbol = "INVALID" THEN "bad_symbol"
    ELSE IF req.volume >= 10000 /\ req.reference # "FundTest" THEN "bad_volume"
    ELSE IF /\ contract.known
            /\ req.symbol = contract.symbol
            /\ contract.pricetick > 0
            /\ ~tick_ok(req.price, contract.pricetick) THEN "off_tick"
    ELSE "pass"

\* the gates of check_order, lines 92-115, in order
check_order_gate(req) ==
    IF ~active THEN "paused"
    ELSE IF req.symbol = "INVALID_CODE" \/ req.symbol = "INVALID" THEN "bad_symbol"
    ELSE IF req.volume >= 10000 /\ req.reference # "FundTest" THEN "bad_volume"
    ELSE IF /\ contract.known
            /\ req.symbol = contract.symbol
            /\ contract.pricetick > 0
            /\ ~tick_ok(req.price, contract.pricetick) THEN "off_tick"
    ELSE "pass"

\* a check_order that returns early only at the emergency-stop gate
counts_unless_paused(gate) == gate # "paused"

\* line 117 is reached only when no gate has returned
counts(gate) == gate = "pass"

\* a repeat test that also counts the first occurrence
is_repeat_from_first(current) == current >= 1

\* lines 123 and 57: the occurrence that makes a submission a repeat
is_repeat(current) == current >= 2

\* a threshold test with > in place of >=
threshold_reached_strict(warned, threshold, current) ==
    ~warned /\ int_or_zero(threshold) > 0 /\ current > int_or_zero(threshold)

\* lines 78-85, 127-128 and 165-166: the alert fires when the latch is clear,
\* the threshold is enabled and the counter has reached it
threshold_reached(warned, threshold, current) ==
    ~warned /\ int_or_zero(threshold) > 0 /\ current >= int_or_zero(threshold)

\* counted events of the current epoch
Events == order_count + cancel_count + dict_total(cancel_signature_count)

\* check_order, lines 88-132
CheckOrder(req) ==
    LET gate == check_order_gate(req)
        sig == order_signature(req)
        current_sig == dict_get(order_signature_count, sig, 0) + 1
        repeat == is_repeat(current_sig)
        new_repeat_order == IF repeat THEN repeat_order_count + 1
                            ELSE repeat_order_count
        repeat_alert ==
            /\ repeat
            /\ threshold_reached(warned_repeat_threshold, max_repeat_count,
                                 repeat_total(new_repeat_order, repeat_cancel_count))
        order_alert ==
            threshold_reached(warned_order_threshold, max_order_count,
                              order_count + 1)
    IN  IF ~counts(gate)
           THEN /\ op' = [name |-> "check_order", gate |-> gate, ret |-> "False",
                          req |-> req]
                /\ alerts' = {}
                /\ UNCHANGED << active, order_count, cancel_count,
                                repeat_order_count, repeat_cancel_count,
                                max_order_count, max_cancel_count,
                                max_repeat_count, order_signature_count,
                                cancel_signature_count, session_order_ids,
                                last_log_order_count, last_log_cancel_count,
                                warned_order_threshold,
                                warned_cancel_threshold,
                                warned_repeat_threshold, contract, fresh >>
           ELSE /\ Events < MaxEvents
                /\ order_count' = order_count + 1
                /\ order_signature_count' =
                       dict_set(order_signature_count, sig, current_sig)
                /\ repeat_order_count' = new_repeat_order
                /\ warned_repeat_threshold' =
                       (warned_repeat_threshold \/ repeat_alert)
                /\ warned_order_threshold' =
                       (warned_order_threshold \/ order_alert)
                /\ alerts' = (IF repeat_alert THEN {"repeat"} ELSE {}) \cup
                             (IF order_alert THEN {"order"} ELSE {})
                /\ op' = [name |-> "check_order", gate |-> gate,
                          ret |-> IF gate = "pass" THEN "True" ELSE "False",
                          req |-> req]
                /\ UNCHANGED << active, cancel_count, repeat_cancel_count,
                                max_order_count, max_cancel_count,
                                max_repeat_count, cancel_signature_count,
                                session_order_ids, last_log_order_count,
                                last_log_cancel_count,
                                warned_cancel_threshold, contract, fresh >>

\* a check_cancel without the emergency-stop test
CheckCancelUngated(req) ==
    /\ op' = [name |-> "check_cancel",
              ret |-> "True"]
    /\ alerts' = {}
    /\ UNCHANGED << active, order_count, cancel_count, repeat_order_count,
                    repeat_cancel_count, max_order_count, max_cancel_count,
                    max_repeat_count, order_signature_count,
                    cancel_signature_count, session_order_ids,
                    last_log_order_count, last_log_cancel_count,
                    warned_order_threshold, warned_cancel_threshold,
                    warned_repeat_threshold, contract, fresh >>

\* check_cancel, lines 134-141
CheckCancel(req) ==
    /\ op' = [name |-> "check_cancel",
              ret |-> IF active THEN "True" ELSE "False"]
    /\ alerts' = {}
    /\ UNCHANGED << active, order_count, cancel_count, repeat_order_count,
                    repeat_cancel_count, max_order_count, max_cancel_count,
                    max_repeat_count, order_signature_count,
                    cancel_signature_count, session_order_ids,
                    last_log_order_count, last_log_cancel_count,
                    warned_order_threshold, warned_cancel_threshold,
                    warned_repeat_threshold, contract, fresh >>

\* register_order, lines 45-47
RegisterOrder(vt_orderid) ==
    /\ session_order_ids' = session_order_ids \cup {vt_orderid}
    /\ op' = [name |-> "register_order", id |-> vt_orderid, ret |-> "None"]
    /\ alerts' = {}
    /\ UNCHANGED << active, order_count, cancel_count, repeat_order_count,
                    repeat_cancel_count, max_order_count, max_cancel_count,
                    max_repeat_count, order_signature_count,
                    cancel_signature_count, last_log_order_count,
                    last_log_cancel_count, warned_order_threshold,
                    warned_cancel_threshold, warned_repeat_threshold,
                    contract, fresh >>

\* register_cancel_request, lines 49-59
RegisterCancelRequest(req) ==
    LET sig == cancel_signature(req)
        current == dict_get(cancel_signature_count, sig, 0) + 1
        repeat == is_repeat(current)
        new_repeat_cancel == IF repeat THEN repeat_cancel_count + 1
                             ELSE repeat_cancel_count
        repeat_alert ==
            /\ repeat
            /\ threshold_reached(warned_repeat_threshold, max_repeat_count,
                                 repeat_total(repeat_order_count, new_repeat_cancel))
    IN  /\ Events < MaxEvents
        /\ cancel_signature_count' = dict_set(cancel_signature_count, sig, current)
        /\ repeat_cancel_count' = new_repeat_cancel
        /\ warned_repeat_threshold' = (warned_repeat_threshold \/ repeat_alert)
        /\ alerts' = IF repeat_alert THEN {"repeat"} ELSE {}
        /\ op' = [name |-> "register_cancel_request", req |-> req, ret |-> "None"]
        /\ UNCHANGED << active, order_count, cancel_count, repeat_order_count,
                        max_order_count, max_cancel_count, max_repeat_count,
                        order_signature_count, session_order_ids,
                        last_log_order_count, last_log_cancel_count,
                        warned_order_threshold, warned_cancel_threshold,
                        contract, fresh >>

\* on_order_submitted, lines 143-149
OnOrderSubmitted(vt_orderid) ==
    /\ last_log_order_count' = order_count
    /\ op' = [name |-> "on_order_submitted", id |-> vt_orderid, ret |-> "None"]
    /\ alerts' = {}
    /\ UNCHANGED << active, order_count, cancel_count, repeat_order_count,
                    repeat_cancel_count, max_order_count, max_cancel_count,
                    max_repeat_count, order_signature_count,
                    cancel_signature_count, session_order_ids,
                    last_log_cancel_count, warned_order_threshold,
                    warned_cancel_threshold, warned_repeat_threshold,
                    contract, fresh >>

\* the methods class TestRiskManager defines
TestRiskManagerAttrs ==
    { "register_order", "register_cancel_request", "_order_signature",
      "_repeat_total", "_check_repeat_threshold", "check_order",
      "check_cancel", "on_order_submitted", "on_order_cancelled",
      "emergency_stop", "set_thresholds", "get_thresholds", "get_metrics",
      "reset_counters" }

\* calling a method the class does not define raises AttributeError
call_result(method) ==
    IF method \in TestRiskManagerAttrs THEN "None" ELSE "AttributeError"

\* risk_manager.on_order_rejected(order): TestRiskManager defines no such
\* method and no rejection counter, so the call raises and changes nothing
OnOrderRejected(vt_orderid) ==
    /\ op' = [name |-> "on_order_rejected", id |-> vt_orderid,
              ret |-> call_result("on_order_rejected")]
    /\ alerts' = {}
    /\ UNCHANGED << active, order_count, cancel_count, repeat_order_count,
                    repeat_cancel_count, max_order_count, max_cancel_count,
                    max_repeat_count, order_signature_count,
                    cancel_signature_count, session_order_ids,
                    last_log_order_count, last_log_cancel_count,
                    warned_order_threshold, warned_cancel_threshold,
                    warned_repeat_threshold, contract, fresh >>

\* a session filter that lets every order through
counts_cancel_any(vt_orderid, ids) == TRUE

\* lines 155-156: cancellations of orders of an earlier process are ignored
counts_cancel(vt_orderid, ids) == vt_orderid \in ids

\* on_order_cancelled, lines 151-168
OnOrderCancelled(vt_orderid) ==
    LET cancel_alert ==
            threshold_reached(warned_cancel_threshold, max_cancel_count,
                              cancel_count + 1)
    IN  IF ~counts_cancel(vt_orderid, session_order_ids)
           THEN /\ op' = [name |-> "on_order_cancelled", id |-> vt_orderid,
                          ret |-> "None"]
                /\ alerts' = {}
                /\ UNCHANGED << active, order_count, cancel_count,
                                repeat_order_count, repeat_cancel_count,
                                max_order_count, max_cancel_count,
                                max_repeat_count, order_signature_count,
                                cancel_signature_count, session_order_ids,
                                last_log_order_count, last_log_cancel_count,
                                warned_order_threshold,
                                warned_cancel_threshold,
                                warned_repeat_threshold, contract, fresh >>
           ELSE /\ Events < MaxEvents
                /\ cancel_count' = cancel_count + 1
                /\ last_log_cancel_count' = cancel_count + 1
                /\ warned_cancel_threshold' =
                       (warned_cancel_threshold \/ cancel_alert)
                /\ alerts' = IF cancel_alert THEN {"cancel"} ELSE {}
                /\ op' = [name |-> "on_order_cancelled", id |-> vt_orderid,
                          ret |-> "None"]
                /\ UNCHANGED << active, order_count, repeat_order_count,
                                repeat_cancel_count, max_order_count,
                                max_cancel_count, max_repeat_count,
                                order_signature_count,
                                cancel_signature_count, session_order_ids,
                                last_log_order_count,
                                warned_order_threshold,
                                warned_repeat_threshold, contract, fresh >>

\* emergency_stop, lines 170-175
EmergencyStop ==
    /\ active' = FALSE
    /\ op' = [name |-> "emergency_stop", ret |-> "None"]
    /\ alerts' = {}
    /\ UNCHANGED << order_count, cancel_count, repeat_order_count,
                    repeat_cancel_count, max_order_count, max_cancel_count,
                    max_repeat_count, order_signature_count,
                    cancel_signature_count, session_order_ids,
                    last_log_order_count, last_log_cancel_count,
                    warned_order_threshold, warned_cancel_threshold,
                    warned_repeat_threshold, contract, fresh >>

\* a scenario restores the gate: engine.risk_manager.active = True
\* (src/src/tests/cases.py line 661)
SetActiveTrue ==
    /\ active' = TRUE
    /\ op' = [name |-> "set_active", ret |-> "None"]
    /\ alerts' = {}
    /\ UNCHANGED << order_count, cancel_count, repeat_order_count,
                    repeat_cancel_count, max_order_count, max_cancel_count,
                    max_repeat_count, order_signature_count,
                    cancel_signature_count, session_order_ids,
                    last_log_order_count, last_log_cancel_count,
                    warned_order_threshold, warned_cancel_threshold,
                    warned_repeat_threshold, contract, fresh >>

\* a set_thresholds that stores 0 for an omitted argument
set_thresholds_zero_omitted(a, b, c, cur) ==
    LET raise1 == a.kind = "bad"
        raise2 == ~raise1 /\ b.kind = "bad"
        raise3 == ~raise1 /\ ~raise2 /\ c.kind = "bad"
    IN  [max_order_count |-> IF raise1 THEN cur.max_order_count ELSE a.val,
         max_cancel_count |->
             IF raise1 \/ raise2 THEN cur.max_cancel_count ELSE b.val,
         max_repeat_count |->
             IF raise1 \/ raise2 \/ raise3 THEN cur.max_repeat_count ELSE c.val,
         raised |-> raise1 \/ raise2 \/ raise3]

\* set_thresholds, lines 181-186: the three assignments in order; int() of a
\* non-numeric value raises and leaves the later assignments undone
set_thresholds_values(a, b, c, cur) ==
    LET raise1 == a.kind = "bad"
        raise2 == ~raise1 /\ b.kind = "bad"
        raise3 == ~raise1 /\ ~raise2 /\ c.kind = "bad"
    IN  [max_order_count |->
             IF a.kind = "int" THEN a.val ELSE cur.max_order_count,
         max_cancel_count |->
             IF ~raise1 /\ b.kind = "int" THEN b.val ELSE cur.max_cancel_count,
         max_repeat_count |->
             IF ~raise1 /\ ~raise2 /\ c.kind = "int" THEN c.val
             ELSE cur.max_repeat_count,
         raised |-> raise1 \/ raise2 \/ raise3]

\* set_thresholds, lines 177-192 (reached by SET_THRESHOLDS, worker.py
\* lines 345-354)
SetThresholds(a, b, c) ==
    LET cur == [max_order_count |-> max_order_count,
                max_cancel_count |-> max_cancel_count,
                max_repeat_count |-> max_repeat_count]
        new == set_thresholds_values(a, b, c, cur)
    IN  /\ max_order_count' = new.max_order_count
        /\ max_cancel_count' = new.max_cancel_count
        /\ max_repeat_count' = new.max_repeat_count
        /\ IF new.raised
              THEN UNCHANGED << warned_order_threshold,
                                warned_cancel_threshold,
                                warned_repeat_threshold >>
              ELSE /\ warned_order_threshold' = FALSE
                   /\ warned_cancel_threshold' = FALSE
                   /\ warned_repeat_threshold' = FALSE
        /\ op' = [name |-> "set_thresholds", args |-> << a, b, c >>,
                  ret |-> IF new.raised THEN "ValueError" ELSE "None"]
        /\ alerts' = {}
        /\ fresh' = FALSE
        /\ UNCHANGED << active, order_count, cancel_count, repeat_order_count,
                        repeat_cancel_count, order_signature_count,
                        cancel_signature_count, session_order_ids,
                        last_log_order_count, last_log_cancel_count,
                        contract >>

\* a reset that forgets the cancel side
ResetCountersOrdersOnly ==
    /\ order_count' = 0
    /\ repeat_order_count' = 0
    /\ last_log_order_count' = -1
    /\ order_signature_count' = EmptyDict
    /\ warned_order_threshold' = FALSE
    /\ warned_repeat_threshold' = FALSE
    /\ UNCHANGED << cancel_count, repeat_cancel_count, last_log_cancel_count,
                    cancel_signature_count, warned_cancel_threshold >>

\* the assignments of reset_counters, lines 214-224
ResetCountersEffect ==
    /\ order_count' = 0
    /\ cancel_count' = 0
    /\ repeat_order_count' = 0
    /\ repeat_cancel_count' = 0
    /\ last_log_order_count' = -1
    /\ last_log_cancel_count' = -1
    /\ order_signature_count' = EmptyDict
    /\ cancel_signature_count' = EmptyDict
    /\ warned_order_threshold' = FALSE
    /\ warned_cancel_threshold' = FALSE
    /\ warned_repeat_threshold' = FALSE

\* reset_counters, lines 210-225
ResetCounters ==
    /\ ResetCountersEffect
    /\ op' = [name |-> "reset_counters", ret |-> "None"]
    /\ alerts' = {}
    /\ fresh' = TRUE
    /\ UNCHANGED << active, max_order_count, max_cancel_count,
                    max_repeat_count, session_order_ids, contract >>

\* a reset_risk that resets the counters only
ResetRiskCountersOnly ==
    /\ active' = active
    /\ ResetCountersEffect
    /\ op' = [name |-> "reset_risk", ret |-> "None", paused |-> ~active]
    /\ alerts' = {}
    /\ fresh' = TRUE
    /\ UNCHANGED << max_order_count, max_cancel_count, max_repeat_count,
                    session_order_ids, contract >>

\* WorkerController.reset_risk (RESET_RISK), worker.py lines 210-213, and
\* TestManager.reset_risk_manager, manager.py lines 74-82; paused records
\* whether the gate was closed when the call arrived
ResetRisk ==
    /\ active' = TRUE
    /\ ResetCountersEffect
    /\ op' = [name |-> "reset_risk", ret |-> "None", paused |-> ~active]
    /\ alerts' = {}
    /\ fresh' = TRUE
    /\ UNCHANGED << max_order_count, max_cancel_count, max_repeat_count,
                    session_order_ids, contract >>

\* TestEngine.on_contract for the test symbol, engine.py lines 182-187
OnContract(tick) ==
    /\ contract' = [known |-> TRUE, symbol |-> TEST_SYMBOL,
                    pricetick |-> tick]
    /\ op' = [name |-> "on_contract", ret |-> "None"]
    /\ alerts' = {}
    /\ UNCHANGED << active, order_count, cancel_count, repeat_order_count,
                    repeat_cancel_count, max_order_count, max_cancel_count,
                    max_repeat_count, order_signature_count,
                    cancel_signature_count, session_order_ids,
                    last_log_order_count, last_log_cancel_count,
                    warned_order_threshold, warned_cancel_threshold,
                    warned_repeat_threshold, fresh >>

RiskNext ==
    /\ \/ \E req \in OrderRequests : CheckOrder(req)
       \/ \E req \in CancelRequests : CheckCancel(req)
       \/ RegisterOrder(SessionOrderId)
       \/ \E req \in CancelRequests : RegisterCancelRequest(req)
       \/ \E id \in OrderIds : OnOrderCancelled(id)
       \/ OnOrderRejected(SessionOrderId)
       \/ EmergencyStop
       \/ SetActiveTrue
       \/ \E a, b, c \in ThresholdArgs : SetThresholds(a, b, c)
       \/ ResetCounters
       \/ ResetRisk
    /\ UNCHANGED << workerVars, mgrVars, stage, engVars, srvVars, supVars >>

\* the risk monitor driven by one caller at a time
SpecRisk == Init /\ [][RiskNext]_vars

\* what a SET_THRESHOLDS payload can carry for a threshold: nothing, an
\* integer, or a value int() rejects (app.py lines 518-528 forward the body
\* as it came)
RpcThresholdArgs == ThresholdArgs \cup {BadArg}

RiskRpcNext ==
    /\ \/ \E req \in OrderRequests : CheckOrder(req)
       \/ RegisterOrder(SessionOrderId)
       \/ \E req \in CancelRequests : RegisterCancelRequest(req)
       \/ \E id \in OrderIds : OnOrderCancelled(id)
       \/ \E a, b, c \in RpcThresholdArgs : SetThresholds(a, b, c)
       \/ ResetCounters
    /\ UNCHANGED << workerVars, mgrVars, stage, engVars, srvVars, supVars >>

\* the risk monitor with the threshold values an RPC client can send
SpecRiskRpc == InitOneConfig /\ [][RiskRpcNext]_vars

(***************************************************************************)
(* TestRiskManager reached from three threads.  The class holds no lock    *)
(* (risk.py lines 14-43 create none), so the statements of its methods     *)
(* interleave; one step below is one statement of risk.py.                 *)
(***************************************************************************)
\* the attributes the methods below assign
RiskAttrs ==
    [order_count |-> order_count, cancel_count |-> cancel_count,
     repeat_order_count |-> repeat_order_count,
     repeat_cancel_count |-> repeat_cancel_count,
     last_log_order_count |-> last_log_order_count,
     last_log_cancel_count |-> last_log_cancel_count,
     order_signature_count |-> order_signature_count,
     cancel_signature_count |-> cancel_signature_count,
     warned_order_threshold |-> warned_order_threshold,
     warned_cancel_threshold |-> warned_cancel_threshold,
     warned_repeat_threshold |-> warned_repeat_threshold,
     max_order_count |-> max_order_count,
     max_cancel_count |-> max_cancel_count,
     max_repeat_count |-> max_repeat_count]

\* one statement's assignment: the attributes become those of s
AssignRisk(s) ==
    /\ order_count' = s.order_count
    /\ cancel_count' = s.cancel_count
    /\ repeat_order_count' = s.repeat_order_count
    /\ repeat_cancel_count' = s.repeat_cancel_count
    /\ last_log_order_count' = s.last_log_order_count
    /\ last_log_cancel_count' = s.last_log_cancel_count
    /\ order_signature_count' = s.order_signature_count
    /\ cancel_signature_count' = s.cancel_signature_count
    /\ warned_order_threshold' = s.warned_order_threshold
    /\ warned_cancel_threshold' = s.warned_cancel_threshold
    /\ warned_repeat_threshold' = s.warned_repeat_threshold
    /\ max_order_count' = s.max_order_count
    /\ max_cancel_count' = s.max_cancel_count
    /\ max_repeat_count' = s.max_repeat_count
    /\ UNCHANGED << active, session_order_ids, contract, op, alerts, fresh >>

\* calls one thread makes in a run
MaxCalls == 2

\* a thread moves to statement pc with its locals; n counts its calls
Goto(t, rec) ==
    risk_calls' = [risk_calls EXCEPT ![t] = [n |-> risk_calls[t].n] @@ rec]

\* a thread enters a method
Enter(t, rec) ==
    /\ risk_calls[t].pc = "idle"
    /\ risk_calls[t].n < MaxCalls
    /\ risk_calls' = [risk_calls EXCEPT ![t] = [n |-> risk_calls[t].n + 1] @@ rec]

\* a thread returns from a method
Return(t) == Goto(t, [pc |-> "idle"])

\* check_order lines 93-115: the gates; a refused order returns at once
ICheckOrderBegin(req) ==
    /\ Enter("scenario", IF counts(check_order_gate(req))
                             THEN [pc |-> "117", req |-> req]
                             ELSE [pc |-> "idle"])
    /\ UNCHANGED riskVars

\* line 117: self.order_count += 1
ICheckOrderCount ==
    /\ risk_calls["scenario"].pc = "117"
    /\ AssignRisk([RiskAttrs EXCEPT !.order_count = @ + 1])
    /\ Goto("scenario", [risk_calls["scenario"] EXCEPT !.pc = "120"])

\* lines 119-120: current_sig = int(self.order_signature_count.get(sig, 0)) + 1
ICheckOrderReadSig ==
    /\ risk_calls["scenario"].pc = "120"
    /\ Goto("scenario",
            [pc |-> "121", req |-> risk_calls["scenario"].req,
             current_sig |->
                 dict_get(order_signature_count,
                          order_signature(risk_calls["scenario"].req), 0) + 1])
    /\ UNCHANGED riskVars

\* line 121: self.order_signature_count[sig] = current_sig
ICheckOrderWriteSig ==
    LET me == risk_calls["scenario"]
    IN  /\ me.pc = "121"
        /\ AssignRisk([RiskAttrs EXCEPT !.order_signature_count =
                           dict_set(@, order_signature(me.req), me.current_sig)])
        /\ Goto("scenario", [me EXCEPT !.pc = "122"])

\* lines 122-123: a repeat adds one to repeat_order_count
ICheckOrderRepeat ==
    LET me == risk_calls["scenario"]
    IN  /\ me.pc = "122"
        /\ IF is_repeat(me.current_sig)
              THEN /\ AssignRisk([RiskAttrs EXCEPT !.repeat_order_count = @ + 1])
                   /\ Goto("scenario", [me EXCEPT !.pc = "124"])
              ELSE /\ UNCHANGED riskVars
                   /\ Goto("scenario", [me EXCEPT !.pc = "126"])

\* line 124: _check_repeat_threshold, lines 77-86
ICheckOrderRepeatAlert ==
    LET me == risk_calls["scenario"]
        alert == threshold_reached(warned_repeat_threshold, max_repeat_count,
                                   repeat_total(repeat_order_count,
                                                repeat_cancel_count))
    IN  /\ me.pc = "124"
        /\ AssignRisk([RiskAttrs EXCEPT !.warned_repeat_threshold = @ \/ alert])
        /\ Goto("scenario", [me EXCEPT !.pc = "126"])

\* lines 126-132: the order threshold, then return True
ICheckOrderAlert ==
    LET alert == threshold_reached(warned_order_threshold, max_order_count,
                                   order_count)
    IN  /\ risk_calls["scenario"].pc = "126"
        /\ AssignRisk([RiskAttrs EXCEPT !.warned_order_threshold = @ \/ alert])
        /\ Return("scenario")

\* register_order, lines 45-47, called by the scenario thread between orders
IRegisterOrder(vt_orderid) ==
    /\ risk_calls["scenario"].pc = "idle"
    /\ vt_orderid \notin session_order_ids
    /\ session_order_ids' = session_order_ids \cup {vt_orderid}
    /\ UNCHANGED << active, order_count, cancel_count, repeat_order_count,
                    repeat_cancel_count, max_order_count, max_cancel_count,
                    max_repeat_count, order_signature_count,
                    cancel_signature_count, last_log_order_count,
                    last_log_cancel_count, warned_order_threshold,
                    warned_cancel_threshold, warned_repeat_threshold,
                    contract, op, alerts, fresh, risk_calls >>

\* on_order_cancelled lines 155-156: the session filter
ICancelledBegin(vt_orderid) ==
    /\ Enter("callback", IF counts_cancel(vt_orderid, session_order_ids)
                             THEN [pc |-> "158"]
                             ELSE [pc |-> "idle"])
    /\ UNCHANGED riskVars

\* line 158: self.cancel_count += 1
ICancelledCount ==
    /\ risk_calls["callback"].pc = "158"
    /\ AssignRisk([RiskAttrs EXCEPT !.cancel_count = @ + 1])
    /\ Goto("callback", [pc |-> "160"])

\* lines 160-162: last_log_cancel_count follows cancel_count
ICancelledLog ==
    /\ risk_calls["callback"].pc = "160"
    /\ AssignRisk([RiskAttrs EXCEPT !.last_log_cancel_count = cancel_count])
    /\ Goto("callback", [pc |-> "164"])

\* lines 164-167: the cancel threshold, then return
ICancelledAlert ==
    LET alert == threshold_reached(warned_cancel_threshold, max_cancel_count,
                                   cancel_count)
    IN  /\ risk_calls["callback"].pc = "164"
        /\ AssignRisk([RiskAttrs EXCEPT !.warned_cancel_threshold = @ \/ alert])
        /\ Return("callback")

\* the assignments of reset_counters in their order, lines 214-224
reset_statement(k, s) ==
    CASE k = 1 -> [s EXCEPT !.order_count = 0]
      [] k = 2 -> [s EXCEPT !.cancel_count = 0]
      [] k = 3 -> [s EXCEPT !.repeat_order_count = 0]
      [] k = 4 -> [s EXCEPT !.repeat_cancel_count = 0]
      [] k = 5 -> [s EXCEPT !.last_log_order_count = -1]
      [] k = 6 -> [s EXCEPT !.last_log_cancel_count = -1]
      [] k = 7 -> [s EXCEPT !.order_signature_count = EmptyDict]
      [] k = 8 -> [s EXCEPT !.cancel_signature_count = EmptyDict]
      [] k = 9 -> [s EXCEPT !.warned_order_threshold = FALSE]
      [] k = 10 -> [s EXCEPT !.warned_cancel_threshold = FALSE]
      [] k = 11 -> [s EXCEPT !.warned_repeat_threshold = FALSE]

\* RESET_RISK reaches reset_counters on the RPC thread (worker.py lines
\* 210-213)
IResetBegin ==
    /\ Enter("rpc", [pc |-> "reset", k |-> 1])
    /\ UNCHANGED riskVars

\* one assignment of reset_counters
IResetStep ==
    LET me == risk_calls["rpc"]
    IN  /\ me.pc = "reset"
        /\ AssignRisk(reset_statement(me.k, RiskAttrs))
        /\ IF me.k = 11 THEN Return("rpc")
           ELSE Goto("rpc", [me EXCEPT !.k = @ + 1])

\* the statements of set_thresholds in their order, lines 181-189
set_statement(k, args, s) ==
    CASE k = 1 -> IF args[1].kind = "int"
                     THEN [s EXCEPT !.max_order_count = args[1].val] ELSE s
      [] k = 2 -> IF args[2].kind = "int"
                     THEN [s EXCEPT !.max_cancel_count = args[2].val] ELSE s
      [] k = 3 -> IF args[3].kind = "int"
                     THEN [s EXCEPT !.max_repeat_count = args[3].val] ELSE s
      [] k = 4 -> [s EXCEPT !.warned_order_threshold = FALSE]
      [] k = 5 -> [s EXCEPT !.warned_cancel_threshold = FALSE]
      [] k = 6 -> [s EXCEPT !.warned_repeat_threshold = FALSE]

\* SET_THRESHOLDS reaches set_thresholds on the RPC thread (worker.py lines
\* 203-208)
ISetBegin(a, b, c) ==
    /\ Enter("rpc", [pc |-> "set", k |-> 1, args |-> << a, b, c >>])
    /\ UNCHANGED riskVars

\* one statement of set_thresholds
ISetStep ==
    LET me == risk_calls["rpc"]
    IN  /\ me.pc = "set"
        /\ AssignRisk(set_statement(me.k, me.args, RiskAttrs))
        /\ IF me.k = 6 THEN Return("rpc")
           ELSE Goto("rpc", [me EXCEPT !.k = @ + 1])

\* the orders of the interleaved runs: one that passes the gates, sent again
\* and again, and one the symbol gate refuses
InterleavedRequests ==
    { OrderReq(TEST_SYMBOL, 1, Price(SAFE_BUY_PRICE, 0), ""),
      OrderReq("INVALID_CODE", 1, Price(SAFE_BUY_PRICE, 0), "") }

InterleavedNext ==
    /\ \/ \E req \in InterleavedRequests : ICheckOrderBegin(req)
       \/ ICheckOrderCount
       \/ ICheckOrderReadSig
       \/ ICheckOrderWriteSig
       \/ ICheckOrderRepeat
       \/ ICheckOrderRepeatAlert
       \/ ICheckOrderAlert
       \/ IRegisterOrder(SessionOrderId)
       \/ \E id \in OrderIds : ICancelledBegin(id)
       \/ ICancelledCount
       \/ ICancelledLog
       \/ ICancelledAlert
       \/ IResetBegin
       \/ IResetStep
       \/ \E a \in ThresholdArgs : ISetBegin(a, a, a)
       \/ ISetStep
    /\ UNCHANGED << workerVars, mgrVars, stage, engVars, srvVars, process,
                    disconnect_mode, popen_count, orc, clock, threads, live,
                    sup_op >>

\* the risk monitor under its three threads
SpecInterleaved == InitOneConfig /\ [][InterleavedNext]_vars

\* The order and cancel gates: the monitor with a contract pushed by the
\* gateway, every callback of the engine, and the three thresholds set
\* together.
GateNext ==
    /\ \/ \E req \in GateOrderRequests : CheckOrder(req)
       \/ \E req \in CancelRequests : CheckCancel(req)
       \/ RegisterOrder(SessionOrderId)
       \/ \E req \in CancelRequests : RegisterCancelRequest(req)
       \/ OnOrderSubmitted(SessionOrderId)
       \/ \E id \in OrderIds : OnOrderCancelled(id)
       \/ OnOrderRejected(SessionOrderId)
       \/ \E tick \in PriceTicks : OnContract(tick)
       \/ EmergencyStop
       \/ SetActiveTrue
       \/ \E a \in ThresholdArgs : SetThresholds(a, a, a)
       \/ ResetCounters
       \/ ResetRisk
    /\ UNCHANGED << workerVars, mgrVars, stage, engVars, srvVars, supVars >>

SpecGate == InitOneConfig /\ [][GateNext]_vars

\* a request that passes every gate but the emergency stop, lines 97-115
otherwise_valid(req) ==
    /\ req.symbol \notin {"INVALID_CODE", "INVALID"}
    /\ req.volume < 10000 \/ req.reference = "FundTest"
    /\ (contract.known /\ req.symbol = contract.symbol /\ contract.pricetick > 0)
          => tick_ok(req.price, contract.pricetick)

\* Observation of one stop / reject / restore / retry sequence: a valid
\* request rejected while paused, the gate restored, the same request sent
\* again.
stage_after ==
    IF op'.name = "check_order" /\ ~active /\ otherwise_valid(op'.req)
       THEN [s |-> "rejected", req |-> op'.req, ret |-> op'.ret]
    ELSE IF op'.name \in {"set_active", "reset_risk"} /\ stage.s = "rejected"
       THEN [s |-> "restored", req |-> stage.req]
    ELSE IF op'.name = "check_order" /\ stage.s = "restored"
       THEN IF op'.req = stage.req
               THEN [s |-> "retried", req |-> op'.req, ret |-> op'.ret,
                     counted |-> order_count' - order_count]
               ELSE stage
    ELSE NoStage

\* the gate driven through stop and restore, the sequence observed
StopNext ==
    /\ \/ \E req \in GateOrderRequests : CheckOrder(req)
       \/ \E tick \in PriceTicks : OnContract(tick)
       \/ EmergencyStop
       \/ SetActiveTrue
       \/ ResetRisk
    /\ stage' = stage_after
    /\ UNCHANGED << workerVars, mgrVars, engVars, srvVars, supVars >>

SpecStop == InitOneConfig /\ [][StopNext]_vars

\* Prices around a multiple of the tick 0.2: 4660.0, 4660.1, 4660.0001,
\* 4660.0000005 and 4659.9999995
TickPrices ==
    { Price(46600000, 0), Price(46601000, 0), Price(46600001, 0),
      Price(46600000, 50000), Price(46599999, SubPerUnit - 50000) }

\* limit orders for the test symbol at these prices (cases.py lines 518-527)
TickOrderRequests == { OrderReq(TEST_SYMBOL, 1, p, "") : p \in TickPrices }

\* the tick gate of check_order applied to these prices
TickNext ==
    /\ \/ \E req \in TickOrderRequests : CheckOrder(req)
       \/ \E tick \in PriceTicks : OnContract(tick)
       \/ ResetCounters
    /\ UNCHANGED << workerVars, mgrVars, stage, engVars, srvVars, supVars >>

SpecTick == InitOneConfig /\ [][TickNext]_vars

(***************************************************************************)
(* TestEngine: order events and rejections (src/src/core/engine.py).       *)
(***************************************************************************)
\* cap on the registered reject callbacks
MaxCallbacks == 2

\* a reject callback either returns or raises
CallbackKinds == {"ok", "raises"}

\* an OrderData pushed by the gateway; reject_code and direction may be None
OrderData(vt_orderid, status, reject_code, status_msg, direction) ==
    [vt_orderid |-> vt_orderid, status |-> status, reject_code |-> reject_code,
     reject_reason |-> IF reject_code = None THEN "" ELSE "insufficient funds",
     status_msg |-> status_msg, direction |-> direction]

OrderEvents ==
    { OrderData(SessionOrderId, "REJECTED", "26", "CTP:insufficient funds", "LONG"),
      OrderData(SessionOrderId, "REJECTED", None, "", "LONG"),
      OrderData(SessionOrderId, "REJECTED", "26", "", None),
      OrderData(SessionOrderId, "NOTTRADED", "26", "", "LONG"),
      OrderData(SessionOrderId, "NOTTRADED", None, "", "LONG"),
      OrderData(SessionOrderId, "CANCELLED", None, "cancelled by user", "LONG"),
      OrderData(SessionOrderId, "CANCELLED", "26", "", "LONG"),
      OrderData(ForeignOrderId, "CANCELLED", None, "cancelled by user", "LONG") }

\* lines 242-251: what a reject callback is called with
event_payload(order) ==
    [vt_orderid |-> order.vt_orderid, reject_code |-> order.reject_code,
     reject_reason |-> order.reject_reason, status_msg |-> order.status_msg]

\* lines 216-219: an order is a rejection when it carries a reject_code or
\* has status REJECTED
is_rejection(order) == order.reject_code # None \/ order.status = "REJECTED"

\* _process_rejection, lines 207-256: the exception that leaves it (or None),
\* whether line 236 stored the order, and the callbacks invoked in order.
\* The log line 228-233 reads order.direction.value; the call at line 239
\* raises when the risk manager has no such method; an exception of a
\* callback is caught at line 255.
process_rejection(order, callbacks) ==
    IF ~is_rejection(order)
       THEN [raised |-> "None", stored |-> FALSE, calls |-> << >>]
    ELSE IF order.direction = None
       THEN [raised |-> "AttributeError", stored |-> FALSE, calls |-> << >>]
    ELSE IF call_result("on_order_rejected") # "None"
       THEN [raised |-> call_result("on_order_rejected"), stored |-> TRUE,
             calls |-> << >>]
    ELSE [raised |-> "None", stored |-> TRUE,
          calls |-> [i \in 1..Len(callbacks) |->
                        [cb |-> i, payload |-> event_payload(order)]]]

\* register_reject_callback, lines 264-268
RegisterRejectCallback(kind) ==
    /\ Len(on_reject_callbacks) < MaxCallbacks
    /\ on_reject_callbacks' = Append(on_reject_callbacks, kind)
    /\ eng_op' = [name |-> "register_reject_callback", ret |-> "None"]
    /\ UNCHANGED << orders, rejected_orders, gateways, riskVars >>

\* _process_rejection called directly
ProcessRejection(order) ==
    LET pr == process_rejection(order, on_reject_callbacks)
    IN  /\ rejected_orders' =
               IF pr.stored
                  THEN dict_set(rejected_orders, order.vt_orderid, order)
                  ELSE rejected_orders
        /\ eng_op' = [name |-> "process_rejection", order |-> order,
                      ret |-> pr.raised, calls |-> pr.calls]
        /\ UNCHANGED << orders, on_reject_callbacks, gateways, riskVars >>

\* an on_order without the try / except around _process_rejection
on_order_propagates(raised) == raised

\* lines 152-155: whatever _process_rejection raises is logged and dropped
on_order_catches(raised) == "None"

\* on_order, lines 140-171: record the order, process a rejection, then the
\* risk-manager hooks on_order_submitted and, for a CANCELLED order,
\* on_order_cancelled
OnOrder(order) ==
    LET pr == process_rejection(order, on_reject_callbacks)
        out == on_order_catches(pr.raised)
        cancelled == out = "None" /\ order.status = "CANCELLED"
        counted == cancelled /\ counts_cancel(order.vt_orderid, session_order_ids)
        cancel_alert ==
            counted /\ threshold_reached(warned_cancel_threshold,
                                         max_cancel_count, cancel_count + 1)
    IN  /\ counted => Events < MaxEvents
        /\ orders' = dict_set(orders, order.vt_orderid, order)
        /\ rejected_orders' =
               IF pr.stored
                  THEN dict_set(rejected_orders, order.vt_orderid, order)
                  ELSE rejected_orders
        /\ last_log_order_count' =
               IF out = "None" THEN order_count ELSE last_log_order_count
        /\ cancel_count' = IF counted THEN cancel_count + 1 ELSE cancel_count
        /\ last_log_cancel_count' =
               IF counted THEN cancel_count + 1 ELSE last_log_cancel_count
        /\ warned_cancel_threshold' = (warned_cancel_threshold \/ cancel_alert)
        /\ alerts' = IF cancel_alert THEN {"cancel"} ELSE {}
        /\ op' = IF out # "None" THEN op
                 ELSE [name |-> IF cancelled THEN "on_order_cancelled"
                                ELSE "on_order_submitted",
                       id |-> order.vt_orderid, ret |-> "None"]
        /\ eng_op' = [name |-> "on_order", order |-> order, ret |-> out,
                      rejection |-> pr.raised, calls |-> pr.calls,
                      submitted |-> out = "None",
                      cancelled |-> cancelled]
        /\ UNCHANGED << on_reject_callbacks, gateways, active, order_count,
                        repeat_order_count, repeat_cancel_count,
                        max_order_count, max_cancel_count, max_repeat_count,
                        order_signature_count, cancel_signature_count,
                        session_order_ids, warned_order_threshold,
                        warned_repeat_threshold, contract, fresh >>

\* send_order registers the id the gateway returned, lines 105-107
EngRegisterOrder ==
    /\ RegisterOrder(SessionOrderId)
    /\ eng_op' = [name |-> "send_order", ret |-> SessionOrderId]
    /\ UNCHANGED << orders, rejected_orders, on_reject_callbacks, gateways >>

EngNext ==
    /\ \/ \E order \in OrderEvents : OnOrder(order)
       \/ \E order \in OrderEvents : ProcessRejection(order)
       \/ \E kind \in CallbackKinds : RegisterRejectCallback(kind)
       \/ EngRegisterOrder
    /\ UNCHANGED << workerVars, mgrVars, stage, srvVars, supVars >>

\* the engine fed with order events by the gateway thread
SpecEngine == InitOneConfig /\ [][EngNext]_vars

\* main_engine.get_gateway(name): the gateway, or None
get_gateway(name) == name \in gateways

\* disconnect, lines 63-78: the gateway is dropped from the engine, its
\* connection is not closed
EngDisconnect ==
    /\ gateways' = gateways \ {gateway_name}
    /\ eng_op' = [name |-> "disconnect", ret |-> "None"]
    /\ UNCHANGED << orders, rejected_orders, on_reject_callbacks, riskVars >>

\* reconnect, lines 80-87, and connect, lines 53-61: a missing gateway is
\* added again before main_engine.connect
EngReconnect ==
    /\ gateways' = gateways \cup {gateway_name}
    /\ eng_op' = [name |-> "reconnect", ret |-> "None"]
    /\ UNCHANGED << orders, rejected_orders, on_reject_callbacks, riskVars >>

\* pause, lines 89-91
EngPause ==
    /\ EmergencyStop
    /\ eng_op' = [name |-> "pause", ret |-> "None"]
    /\ UNCHANGED << orders, rejected_orders, on_reject_callbacks, gateways >>

\* WorkerController.reset_risk, worker.py lines 210-213
EngResetRisk ==
    /\ ResetRisk
    /\ eng_op' = [name |-> "reset_risk", ret |-> "None"]
    /\ UNCHANGED << orders, rejected_orders, on_reject_callbacks, gateways >>

\* cancel_order, lines 114-122: check_cancel, then register_cancel_request,
\* then the gateway is looked up and the request handed to it
CancelOrder(req) ==
    /\ IF active THEN RegisterCancelRequest(req) ELSE CheckCancel(req)
    /\ eng_op' = [name |-> "cancel_order", req |-> req, passed |-> active,
                  sent |-> active /\ get_gateway(gateway_name)]
    /\ UNCHANGED << orders, rejected_orders, on_reject_callbacks, gateways >>

CancelNext ==
    /\ \/ \E req \in CancelRequests : CancelOrder(req)
       \/ EngDisconnect
       \/ EngReconnect
       \/ EngPause
       \/ EngResetRisk
    /\ UNCHANGED << workerVars, mgrVars, stage, srvVars, supVars >>

\* cancel requests of the scenarios, with the gateway removed and restored
SpecCancel == Init /\ [][CancelNext]_vars

(***************************************************************************)
(* CommandServer (src/src/core/server.py) in front of                      *)
(* WorkerController.handle_rpc_request.                                    *)
(***************************************************************************)
\* a key that a JSON object does not carry
Absent == "absent"

\* the request_id a client puts into its request (app.py line 96)
RequestId == "req-1"

\* what one connection sends before its newline
EmptyFrame ==
    [wire |-> "empty", parses |-> FALSE, request_id |-> Absent, type |-> "",
     case |-> "", args |-> << >>]

\* a payload that starts with "{" and is not JSON
MalformedJson ==
    [wire |-> "json", parses |-> FALSE, request_id |-> RequestId, type |-> "",
     case |-> "", args |-> << >>]

JsonRequest(type, case, args) ==
    [wire |-> "json", parses |-> TRUE, request_id |-> RequestId,
     type |-> type, case |-> case, args |-> args]

\* a legacy one-word command
TextCommand(word) ==
    [wire |-> "text", parses |-> FALSE, request_id |-> Absent, type |-> word,
     case |-> "", args |-> << >>]

\* SET_THRESHOLDS payloads: partial updates and one value int() rejects
ThresholdPayloads ==
    { << IntArg(0), NoneArg, NoneArg >>,
      << NoneArg, IntArg(MaxThreshold), NoneArg >>,
      << NoneArg, NoneArg, IntArg(0) >>,
      << IntArg(0), BadArg, NoneArg >> }

Frames ==
    { EmptyFrame, MalformedJson,
      JsonRequest("PING", "", << >>),
      JsonRequest("GET_STATUS", "", << >>),
      JsonRequest("RESET_RISK", "", << >>),
      JsonRequest("PAUSE", "", << >>),
      JsonRequest("NOPE", "", << >>),
      TextCommand("PAUSE"), TextCommand("pause"), TextCommand("HELLO") }
    \cup { JsonRequest("RUN_CASE", raw, << >>) :
              raw \in {[pad |-> TRUE, text |-> "2.1.1"],
                       [pad |-> FALSE, text |-> "9.9.9"]} }
    \cup { JsonRequest("SET_THRESHOLDS", "", args) : args \in ThresholdPayloads }

\* the payloads of scripts/control.py (lines 35-42) and of a caller that
\* does not upper-case its verb, next to a few JSON requests
LegacyFrames ==
    { TextCommand("PAUSE"), TextCommand("pause"), TextCommand("DISCONNECT"),
      TextCommand("Reconnect"), TextCommand("HELLO"),
      EmptyFrame, MalformedJson,
      JsonRequest("PING", "", << >>),
      JsonRequest("DISCONNECT", "", << >>),
      JsonRequest("RESET_RISK", "", << >>) }

NoReply ==
    [wire |-> "none", request_id |-> Absent, ok |-> FALSE, data |-> Absent,
     error |-> Absent]

\* the legacy reply, line 59
TextOK ==
    [wire |-> "text", request_id |-> Absent, ok |-> TRUE, data |-> "OK",
     error |-> Absent]

\* {"request_id": ..., "ok": True, "data": ...}; data is Absent in the
\* replies of worker.py lines 357, 363, 366 and 369
JsonOK(request_id, data) ==
    [wire |-> "json", request_id |-> request_id, ok |-> TRUE, data |-> data,
     error |-> Absent]

\* {"request_id": ..., "ok": False, "error": ...}; the reply of server.py
\* line 54 carries no request_id
JsonError(request_id, error) ==
    [wire |-> "json", request_id |-> request_id, ok |-> FALSE, data |-> Absent,
     error |-> error]

\* a comparison of the command as it was typed
upper_kept_case(word) == word

\* cmd.upper(), line 72
upper(word) ==
    CASE word = "pause" -> "PAUSE"
      [] word = "Reconnect" -> "RECONNECT"
      [] OTHER -> word

\* an accept loop without the except clause of lines 62-64
accept_loop_dies(exc) == "stop"

\* lines 60-64: any exception of one connection is logged, the loop goes on
accept_loop_catches(exc) == "continue"

\* the rest of the state a request leaves alone
ServeFrame(keep_risk, keep_worker, keep_engine) ==
    /\ keep_risk => UNCHANGED riskVars
    /\ keep_worker => UNCHANGED workerVars
    /\ keep_engine => UNCHANGED engVars

\* observation: what the previous connection ran into
last_caught == IF srv_op.kind = "connection" THEN srv_op.caught ELSE "none"

\* The reply of one connection and the handler that caught an exception:
\* json.loads (lines 50-54), handle_rpc_request (worker.py lines 288-372),
\* process_command (lines 71-80).
ServeReply(frame, sent) ==
    \/ /\ frame.wire = "empty"
       /\ ServeFrame(TRUE, TRUE, TRUE)
       /\ srv_op' = [kind |-> "connection", frame |-> frame,
                     sent |-> sent, after |-> last_caught,
                     caught |-> "none", reply |-> NoReply]
    \/ /\ frame.wire = "json" /\ ~frame.parses
       /\ ServeFrame(TRUE, TRUE, TRUE)
       /\ srv_op' = [kind |-> "connection", frame |-> frame,
                     sent |-> sent, after |-> last_caught,
                     caught |-> "json.loads",
                     reply |-> JsonError(Absent, "invalid_request")]
    \/ /\ frame.wire = "json" /\ frame.parses /\ frame.type = "PING"
       /\ ServeFrame(TRUE, TRUE, TRUE)
       /\ srv_op' = [kind |-> "connection", frame |-> frame,
                     sent |-> sent, after |-> last_caught,
                     caught |-> "none", reply |-> JsonOK(frame.request_id, "pong")]
    \/ /\ frame.wire = "json" /\ frame.parses /\ frame.type = "GET_STATUS"
       /\ ServeFrame(TRUE, TRUE, TRUE)
       /\ srv_op' = [kind |-> "connection", frame |-> frame,
                     sent |-> sent, after |-> last_caught,
                     caught |-> "none", reply |-> JsonOK(frame.request_id, "status")]
    \/ /\ frame.wire = "json" /\ frame.parses /\ frame.type = "SET_THRESHOLDS"
       /\ SetThresholds(frame.args[1], frame.args[2], frame.args[3])
       /\ ServeFrame(FALSE, TRUE, TRUE)
       /\ srv_op' = [kind |-> "connection", frame |-> frame,
                     sent |-> sent, after |-> last_caught,
                     caught |-> IF op'.ret = "None" THEN "none" ELSE "handler",
                     reply |-> IF op'.ret = "None"
                                  THEN JsonOK(frame.request_id, "snapshot")
                               ELSE JsonError(frame.request_id, op'.ret)]
    \/ /\ frame.wire = "json" /\ frame.parses /\ frame.type = "RESET_RISK"
       /\ ResetRisk
       /\ ServeFrame(FALSE, TRUE, TRUE)
       /\ srv_op' = [kind |-> "connection", frame |-> frame,
                     sent |-> sent, after |-> last_caught,
                     caught |-> "none", reply |-> JsonOK(frame.request_id, Absent)]
    \/ /\ frame.wire = "json" /\ frame.parses /\ frame.type = "PAUSE"
       /\ EmergencyStop
       /\ ServeFrame(FALSE, TRUE, TRUE)
       /\ srv_op' = [kind |-> "connection", frame |-> frame,
                     sent |-> sent, after |-> last_caught,
                     caught |-> "none", reply |-> JsonOK(frame.request_id, Absent)]
    \/ /\ frame.wire = "json" /\ frame.parses /\ frame.type = "RUN_CASE"
       /\ LET case_id == strip(frame.case)
              r == acquire_nonblocking(task_lock)
          IN  IF case_map_get(case_id) = None
                 THEN /\ ServeFrame(TRUE, TRUE, TRUE)
                      /\ srv_op' = [kind |-> "connection", frame |-> frame,
                                    sent |-> sent, after |-> last_caught,
                                    caught |-> "handler",
                                    reply |-> JsonError(frame.request_id,
                                                       "unknown case")]
                 ELSE /\ task_lock' = r[2]
                      /\ work_queue' = IF r[1] THEN Append(work_queue, case_id)
                                       ELSE work_queue
                      /\ UNCHANGED << pool_pc, pool_case, pool_exc,
                                      current_case_id, last_error,
                                      last_case_finished_at, call_pc,
                                      call_case, resp, outcome, seen_busy,
                                      issued_idle, overlapped, released >>
                      /\ ServeFrame(TRUE, FALSE, TRUE)
                      /\ srv_op' = [kind |-> "connection", frame |-> frame,
                                    sent |-> sent, after |-> last_caught,
                                    caught |-> "none",
                                    reply |-> JsonOK(frame.request_id,
                                                     IF r[1] THEN "accepted"
                                                     ELSE "busy")]
    \/ /\ frame.wire = "json" /\ frame.parses
       /\ frame.type \notin {"PING", "GET_STATUS", "SET_THRESHOLDS",
                             "RESET_RISK", "PAUSE", "RUN_CASE", "DISCONNECT"}
       /\ ServeFrame(TRUE, TRUE, TRUE)
       /\ srv_op' = [kind |-> "connection", frame |-> frame,
                     sent |-> sent, after |-> last_caught,
                     caught |-> "none", reply |-> JsonError(frame.request_id,
                                        "unknown_type")]
    \/ /\ frame.wire = "text" /\ upper(frame.type) = "PAUSE"
       /\ EmergencyStop
       /\ ServeFrame(FALSE, TRUE, TRUE)
       /\ srv_op' = [kind |-> "connection", frame |-> frame,
                     sent |-> sent, after |-> last_caught,
                     caught |-> "none", reply |-> TextOK]
    \/ /\ frame.wire = "json" /\ frame.parses /\ frame.type = "DISCONNECT"
       /\ EngDisconnect
       /\ UNCHANGED workerVars
       /\ srv_op' = [kind |-> "connection", frame |-> frame,
                     sent |-> sent, after |-> last_caught,
                     caught |-> "none",
                     reply |-> JsonOK(frame.request_id, Absent)]
    \/ /\ frame.wire = "text" /\ upper(frame.type) = "DISCONNECT"
       /\ EngDisconnect
       /\ UNCHANGED workerVars
       /\ srv_op' = [kind |-> "connection", frame |-> frame,
                     sent |-> sent, after |-> last_caught,
                     caught |-> "none", reply |-> TextOK]
    \/ /\ frame.wire = "text" /\ upper(frame.type) = "RECONNECT"
       /\ EngReconnect
       /\ UNCHANGED workerVars
       /\ srv_op' = [kind |-> "connection", frame |-> frame,
                     sent |-> sent, after |-> last_caught,
                     caught |-> "none", reply |-> TextOK]
    \/ /\ frame.wire = "text"
       /\ upper(frame.type) \notin {"DISCONNECT", "RECONNECT", "PAUSE"}
       /\ ServeFrame(TRUE, TRUE, TRUE)
       /\ srv_op' = [kind |-> "connection", frame |-> frame,
                     sent |-> sent, after |-> last_caught,
                     caught |-> "none", reply |-> TextOK]

\* pool-thread steps as steps of the whole system

\* run(), lines 22-25: the listening socket is created and bound
SrvListen ==
    /\ running /\ server_socket = "none"
    /\ server_socket' = "listening"
    /\ srv_op' = [kind |-> "listen"]
    /\ UNCHANGED << running, workerVars, riskVars, engVars >>

\* run(), lines 66-69: bind fails (port in use), the thread stops itself
SrvListenFails ==
    /\ running /\ server_socket = "none"
    /\ running' = FALSE
    /\ server_socket' = "closed"
    /\ srv_op' = [kind |-> "startup_error"]
    /\ UNCHANGED << workerVars, riskVars, engVars >>

\* lines 27-65, one connection: read the frame, dispatch, send the reply;
\* sent is FALSE when the peer has gone and sendall raises
Serve(frame, sent) ==
    /\ running /\ server_socket = "listening"
    /\ ServeReply(frame, sent)
    /\ LET failed == srv_op'.reply.wire # "none" /\ ~sent
           loop == IF failed THEN accept_loop_catches("OSError")
                   ELSE "continue"
       IN  /\ running' = (loop = "continue")
           /\ server_socket' = IF loop = "continue" THEN server_socket
                               ELSE "closed"

\* lines 60-61: accept times out after one second, the loop tests running
SrvAcceptTimeout ==
    /\ running /\ server_socket = "listening"
    /\ srv_op' = [kind |-> "timeout"]
    /\ UNCHANGED << running, server_socket, workerVars, riskVars, engVars >>

\* stop(), lines 108-115, called by the worker's main thread on exit
SrvStop ==
    /\ running
    /\ running' = FALSE
    /\ server_socket' = "closed"
    /\ srv_op' = [kind |-> "stop"]
    /\ UNCHANGED << workerVars, riskVars, engVars >>

\* the pool thread runs the scenarios the server accepted
SrvPoolStep(t) == PoolStep(t) /\ UNCHANGED << riskVars, engVars, srvVars >>

SrvNext ==
    /\ \/ SrvListen
       \/ SrvListenFails
       \/ \E frame \in Frames, sent \in BOOLEAN : Serve(frame, sent)
       \/ SrvAcceptTimeout
       \/ SrvStop
       \/ \E t \in PoolThreads : SrvPoolStep(t)
    /\ UNCHANGED << mgrVars, stage, supVars >>

\* the control server and the worker behind it
SpecServer == InitOneConfig /\ [][SrvNext]_vars

\* the server fed by the legacy control script
LegacyNext ==
    /\ \/ SrvListen
       \/ SrvListenFails
       \/ \E frame \in LegacyFrames, sent \in BOOLEAN : Serve(frame, sent)
       \/ SrvAcceptTimeout
       \/ SrvStop
    /\ UNCHANGED << mgrVars, stage, supVars >>

SpecLegacy == InitOneConfig /\ [][LegacyNext]_vars

(***************************************************************************)
(* ProcessManager (src/src/web/app.py lines 34-86) and the hard disconnect *)
(* and reconnect orchestrations (lines 213-384), with the worker process   *)
(* they start, poll and kill.                                              *)
(***************************************************************************)
\* cap on the worker processes spawned in one run
MaxSpawns == 3

\* cap on the readings of time.time()
MaxClock == 2

\* Popen.poll(): None while the child runs, else the exit status, which the
\* handle keeps from then on
poll(p) == IF p.os = "dead" THEN [p EXCEPT !.returncode = "set"] ELSE p

\* is_running, lines 39-40
is_running(p) == p.pid # 0 /\ p.os = "running"

\* a kill that sends no signal
kill_not_sent(p) == p

\* kill_worker, lines 65-72: no handle, nothing to do; Popen.kill() polls
\* first and signals only a child that still runs.  The signalled child is
\* dead and not yet reaped.
kill_worker(p) ==
    IF p.pid = 0 THEN p
    ELSE IF p.os = "running" THEN [p EXCEPT !.os = "dead"]
    ELSE poll(p)

\* a start that ignores the disconnect latch
start_refused_never(mode, force) == FALSE

\* lines 49-50: in disconnect mode only a forced start goes on
start_refused(mode, force) == mode /\ ~force

\* start_worker, lines 42-63: the handle afterwards, the return value and
\* whether Popen was called
start_worker(p, mode, force) ==
    IF start_refused(mode, force)
       THEN [process |-> p, ret |-> FALSE, spawned |-> FALSE]
    ELSE IF is_running(p)
       THEN [process |-> p, ret |-> TRUE, spawned |-> FALSE]
    ELSE [process |-> Popen(popen_count + 1), ret |-> TRUE, spawned |-> TRUE]

\* an exit_disconnect_mode that leaves the latch as it is
exit_disconnect_mode_kept(mode) == mode

\* exit_disconnect_mode, lines 84-86
exit_disconnect_mode(mode) == FALSE

\* a busy test that never reports busy
status_busy_ignored(answered, lock) == FALSE

\* lines 246-248, 313-315 and 364-366: GET_STATUS was answered with ok and
\* data.busy, which is task_lock.locked() (worker.py line 175)
status_busy(answered, lock) == answered /\ lock

\* the worker answers RPC requests: its process runs and its CommandServer
\* listens
Reachable(p) == is_running(p) /\ running /\ server_socket = "listening"

\* A spawned worker starts from WorkerController.__init__ and
\* CommandServer.__init__; without a spawn the worker is left alone.
WorkerBoot(spawned) ==
    IF spawned
       THEN /\ task_lock' = FALSE
            /\ work_queue' = << >>
            /\ pool_pc' = [t \in PoolThreads |-> "idle"]
            /\ pool_case' = [t \in PoolThreads |-> None]
            /\ pool_exc' = [t \in PoolThreads |-> None]
            /\ current_case_id' = None
            /\ last_error' = None
            /\ last_case_finished_at' = None
            /\ outcome' = "none"
            /\ running' = TRUE
            /\ server_socket' = "none"
            /\ srv_op' = [kind |-> "init"]
            /\ UNCHANGED << call_pc, call_case, resp, seen_busy, issued_idle,
                            overlapped, released >>
       ELSE UNCHANGED << workerVars, srvVars >>

\* ProcessManager.start_worker called by a route (force = FALSE, lines 456,
\* 500, 508, ...) or by a caller that forces the start
StartWorker(force) ==
    LET sw == start_worker(process, disconnect_mode, force)
    IN  /\ force => orc.pc = "idle"
        /\ sw.spawned => popen_count < MaxSpawns
        /\ process' = sw.process
        /\ popen_count' = IF sw.spawned THEN popen_count + 1 ELSE popen_count
        /\ WorkerBoot(sw.spawned)
        /\ sup_op' = [name |-> "start_worker", force |-> force,
                      ret |-> sw.ret, spawned |-> sw.spawned,
                      after |-> sup_op.name]
        /\ UNCHANGED << disconnect_mode, orc >>

\* the route /api/worker/kill, lines 596-599
KillWorker ==
    /\ process' = kill_worker(process)
    /\ sup_op' = [name |-> "kill_worker", ret |-> TRUE]
    /\ UNCHANGED << disconnect_mode, popen_count, orc, workerVars, srvVars >>

\* restart_worker, lines 74-78: the latch is cleared, the worker killed,
\* and after 0.2 s a start is forced.  Lines 329-334 of _hard_disconnect_only
\* are consecutive statements: a restart asked for by the operator is taken
\* before or after them.
RestartWorker ==
    LET killed == kill_worker(process)
        sw == start_worker(killed, FALSE, TRUE)
    IN  /\ orc.pc # "kill"
        /\ sw.spawned => popen_count < MaxSpawns
        /\ disconnect_mode' = FALSE
        /\ process' = sw.process
        /\ popen_count' = IF sw.spawned THEN popen_count + 1 ELSE popen_count
        /\ WorkerBoot(sw.spawned)
        /\ sup_op' = [name |-> "restart_worker", ret |-> sw.ret,
                      spawned |-> sw.spawned, before |-> process,
                      mode |-> disconnect_mode]
        /\ UNCHANGED orc

\* an enter_disconnect_mode that leaves the latch as it is
enter_disconnect_mode_skipped(mode) == mode

\* enter_disconnect_mode, lines 80-82
enter_disconnect_mode(mode) == TRUE

EnterDisconnectMode ==
    /\ orc.pc = "idle"
    /\ disconnect_mode' = enter_disconnect_mode(disconnect_mode)
    /\ sup_op' = [name |-> "enter_disconnect_mode"]
    /\ UNCHANGED << process, popen_count, orc, workerVars, srvVars >>

ExitDisconnectMode ==
    /\ orc.pc = "idle"
    /\ disconnect_mode' = exit_disconnect_mode(disconnect_mode)
    /\ sup_op' = [name |-> "exit_disconnect_mode"]
    /\ UNCHANGED << process, popen_count, orc, workerVars, srvVars >>

\* the route /api/run/<case_id> for a scenario of the worker, lines 454-496:
\* a start that is not forced, then RUN_CASE over RPC (worker.py lines
\* 215-225); an unanswered request raises in the route
RouteRunCase(case_id) ==
    LET sw == start_worker(process, disconnect_mode, FALSE)
        answered == ~sw.spawned /\ Reachable(sw.process)
        r == acquire_nonblocking(task_lock)
    IN  /\ sw.spawned => popen_count < MaxSpawns
        /\ process' = sw.process
        /\ popen_count' = IF sw.spawned THEN popen_count + 1 ELSE popen_count
        /\ IF answered
              THEN /\ task_lock' = r[2]
                   /\ work_queue' = IF r[1] THEN Append(work_queue, case_id)
                                    ELSE work_queue
                   /\ UNCHANGED << pool_pc, pool_case, pool_exc,
                                   current_case_id, last_error,
                                   last_case_finished_at, call_pc, call_case,
                                   resp, outcome, seen_busy, issued_idle,
                                   overlapped, released, srvVars >>
              ELSE WorkerBoot(sw.spawned)
        /\ sup_op' = [name |-> "route_run_case", spawned |-> sw.spawned,
                      answered |-> answered,
                      accepted |-> answered /\ r[1]]
        /\ UNCHANGED << disconnect_mode, orc >>

\* ---- the worker process --------------------------------------------------
\* CommandServer.run binds its port (worker.py line 402)
SupWorkerListens ==
    /\ is_running(process)
    /\ SrvListen
    /\ sup_op' = [name |-> "worker_listens"]
    /\ UNCHANGED << process, disconnect_mode, popen_count, orc >>

\* the worker process ends by itself (worker.py lines 406-441)
SupWorkerExits ==
    /\ is_running(process)
    /\ process' = [process EXCEPT !.os = "dead"]
    /\ sup_op' = [name |-> "worker_exits"]
    /\ UNCHANGED << disconnect_mode, popen_count, orc, workerVars, srvVars >>

\* the pool thread of a running worker
SupPoolStep(t) ==
    /\ is_running(process)
    /\ PoolStep(t)
    /\ sup_op' = [name |-> "worker_scenario"]
    /\ UNCHANGED << process, disconnect_mode, popen_count, orc, srvVars >>

\* ---- _hard_disconnect_only, _hard_reconnect_only and the combined -------
\* ---- _hard_disconnect_orchestrate ----------------------------------------
HardOps == {"hard_disconnect", "hard_reconnect", "hard_orchestrate"}

\* what an orchestration returns: (ok, {"reason": ...}) and what it did
HardReturn(ok, reason, kills) ==
    [name |-> orc.op, done |-> TRUE, ok |-> ok, reason |-> reason,
     spawns |-> orc.spawns, kills |-> orc.kills + kills, busy |-> orc.busy,
     immediate |-> orc.immediate, pinged |-> orc.pinged,
     t1 |-> orc.t1, t2 |-> 0]

\* lines 234-238, 301-305, 352-356: exit_disconnect_mode(), then
\* start_worker(force=True)
HardBegin(kind) ==
    LET mode == exit_disconnect_mode(disconnect_mode)
        sw == start_worker(process, mode, TRUE)
    IN  /\ orc.pc = "idle"
        /\ sw.spawned => popen_count < MaxSpawns
        /\ disconnect_mode' = mode
        /\ process' = sw.process
        /\ popen_count' = IF sw.spawned THEN popen_count + 1 ELSE popen_count
        /\ WorkerBoot(sw.spawned)
        /\ orc' = [pc |-> "status", op |-> kind,
                   spawns |-> IF sw.spawned THEN 1 ELSE 0, kills |-> 0,
                   busy |-> FALSE, pinged |-> FALSE, t1 |-> 0,
                   immediate |-> /\ kind = "hard_disconnect"
                                 /\ sup_op.name = "hard_disconnect"
                                 /\ sup_op.done /\ sup_op.ok
                                 /\ ~is_running(process)]
        /\ sup_op' = [name |-> kind, done |-> FALSE, step |-> "begin",
                      spawned |-> sw.spawned]

\* lines 240-250, 307-317, 358-368: GET_STATUS; a worker that reports busy
\* ends the call with reason busy, an unanswered request is ignored
HardStatus ==
    LET answered == Reachable(process)
        busy == answered /\ task_lock
    IN  /\ orc.pc = "status"
        /\ IF status_busy(answered, task_lock)
              THEN /\ orc' = NoOrchestration
                   /\ sup_op' = [HardReturn(FALSE, "busy", 0)
                                    EXCEPT !.busy = busy]
              ELSE /\ orc' = [orc EXCEPT
                                !.pc = IF orc.op = "hard_reconnect"
                                          THEN "ping_after" ELSE "ping",
                                !.busy = busy]
                   /\ sup_op' = [name |-> orc.op, done |-> FALSE,
                                 step |-> "status", spawned |-> FALSE]
        /\ UNCHANGED << process, disconnect_mode, popen_count, workerVars,
                        srvVars >>

\* _wait_ping_ok returned True (lines 213-219) before the kill: T1 is taken
\* (lines 257, 326).  The combined variant kills the worker and takes T2
\* (lines 262-263), then sleeps through the disconnect window;
\* _hard_disconnect_only goes on to enter_disconnect_mode.
HardPingOk ==
    /\ orc.pc = "ping"
    /\ Reachable(process)
    /\ IF orc.op = "hard_disconnect"
          THEN /\ orc' = [orc EXCEPT !.pc = "enter", !.pinged = TRUE,
                                     !.t1 = clock]
               /\ sup_op' = [name |-> orc.op, done |-> FALSE,
                             step |-> "ping_ok", spawned |-> FALSE]
               /\ UNCHANGED process
          ELSE /\ process' = kill_worker(process)
               /\ orc' = [orc EXCEPT !.pc = "window", !.kills = @ + 1,
                                     !.t1 = clock]
               /\ sup_op' = [name |-> orc.op, done |-> FALSE,
                             step |-> "kill", spawned |-> FALSE]
    /\ UNCHANGED << disconnect_mode, popen_count, workerVars, srvVars >>

\* _hard_disconnect_only, line 329: enter_disconnect_mode()
HardEnterMode ==
    /\ orc.pc = "enter"
    /\ disconnect_mode' = enter_disconnect_mode(disconnect_mode)
    /\ orc' = [orc EXCEPT !.pc = "kill"]
    /\ sup_op' = [name |-> orc.op, done |-> FALSE, step |-> "enter",
                  spawned |-> FALSE]
    /\ UNCHANGED << process, popen_count, workerVars, srvVars >>

\* _hard_disconnect_only, lines 334-343: kill_worker(), T2 is taken, and
\* (True, {t1, t2}) is returned
HardKill ==
    /\ orc.pc = "kill"
    /\ process' = kill_worker(process)
    /\ orc' = NoOrchestration
    /\ sup_op' = [HardReturn(TRUE, "none", 1) EXCEPT !.t2 = clock']
    /\ UNCHANGED << disconnect_mode, popen_count, workerVars, srvVars >>

\* _wait_ping_ok returned False: no PING was answered before the deadline
\* (lines 253-255, 321-323)
HardPingTimeout ==
    /\ orc.pc = "ping"
    /\ ~Reachable(process)
    /\ orc' = NoOrchestration
    /\ sup_op' = HardReturn(FALSE, "ping_timeout_before_kill", 0)
    /\ UNCHANGED << process, disconnect_mode, popen_count, workerVars,
                    srvVars >>

\* lines 269-274: the window has passed, start_worker(force=True)
HardWindowEnd ==
    LET sw == start_worker(process, disconnect_mode, TRUE)
    IN  /\ orc.pc = "window"
        /\ sw.spawned => popen_count < MaxSpawns
        /\ process' = sw.process
        /\ popen_count' = IF sw.spawned THEN popen_count + 1 ELSE popen_count
        /\ WorkerBoot(sw.spawned)
        /\ orc' = [orc EXCEPT !.pc = "ping_after",
                              !.spawns = IF sw.spawned THEN @ + 1 ELSE @]
        /\ sup_op' = [name |-> orc.op, done |-> FALSE, step |-> "restart",
                      spawned |-> sw.spawned]
        /\ UNCHANGED disconnect_mode

\* lines 277-292 and 374-384: a PING was answered after the start, T3
HardPingAfterOk ==
    /\ orc.pc = "ping_after"
    /\ Reachable(process)
    /\ orc' = NoOrchestration
    /\ sup_op' = [HardReturn(TRUE, "none", 0) EXCEPT !.pinged = TRUE]
    /\ UNCHANGED << process, disconnect_mode, popen_count, workerVars,
                    srvVars >>

\* lines 277-280 and 374-377: no PING was answered before the deadline
HardPingAfterTimeout ==
    /\ orc.pc = "ping_after"
    /\ ~Reachable(process)
    /\ orc' = NoOrchestration
    /\ sup_op' = HardReturn(FALSE,
                            IF orc.op = "hard_reconnect"
                               THEN "ping_timeout_after_start"
                               ELSE "ping_timeout_after_restart", 0)
    /\ UNCHANGED << process, disconnect_mode, popen_count, workerVars,
                    srvVars >>

SupNext ==
    /\ clock' \in {c \in {clock, clock + 1} : c <= MaxClock}
    /\ \/ \E force \in BOOLEAN : StartWorker(force)
       \/ KillWorker
       \/ RestartWorker
       \/ EnterDisconnectMode
       \/ ExitDisconnectMode
       \/ RouteRunCase("2.1.1")
       \/ SupWorkerListens
       \/ SupWorkerExits
       \/ \E t \in PoolThreads : SupPoolStep(t)
       \/ \E kind \in HardOps : HardBegin(kind)
       \/ HardStatus
       \/ HardPingOk
       \/ HardEnterMode
       \/ HardKill
       \/ HardPingTimeout
       \/ HardWindowEnd
       \/ HardPingAfterOk
       \/ HardPingAfterTimeout
    /\ UNCHANGED << mgrVars, riskVars, stage, engVars, threads, live,
                    risk_calls >>

\* the dashboard process, its supervisor and the worker it supervises
SpecSupervisor == InitOneConfig /\ [][SupNext]_vars

(***************************************************************************)
(* ProcessManager under concurrent request threads: the statements of      *)
(* start_worker, kill_worker and restart_worker (app.py lines 39-78) taken *)
(* one at a time.  The class holds no lock.                                *)
(***************************************************************************)
\* a thread enters start_worker(force), line 42
HStartBegin(t, force) ==
    /\ threads[t].pc = "idle"
    /\ threads' = [threads EXCEPT ![t] = [@ EXCEPT !.pc = "check",
                                                    !.force = force]]
    /\ UNCHANGED << process, disconnect_mode, popen_count, live >>

\* lines 49-52: the two early returns of start_worker
HStartCheck(t) ==
    /\ threads[t].pc = "check"
    /\ threads' = [threads EXCEPT ![t] =
                      IF \/ start_refused(disconnect_mode, threads[t].force)
                         \/ is_running(process)
                         THEN ThreadIdle
                         ELSE [@ EXCEPT !.pc = "popen"]]
    /\ UNCHANGED << process, disconnect_mode, popen_count, live >>

\* lines 58-62, right-hand side: subprocess.Popen starts a process
HStartPopen(t) ==
    /\ threads[t].pc = "popen"
    /\ popen_count < MaxSpawns
    /\ popen_count' = popen_count + 1
    /\ live' = live \cup {popen_count'}
    /\ threads' = [threads EXCEPT ![t] = [@ EXCEPT !.pc = "assign",
                                                    !.pid = popen_count']]
    /\ UNCHANGED << process, disconnect_mode >>

\* line 58, left-hand side: self.process = ..., then return True
HStartAssign(t) ==
    /\ threads[t].pc = "assign"
    /\ process' = Popen(threads[t].pid)
    /\ threads' = [threads EXCEPT ![t] = ThreadIdle]
    /\ UNCHANGED << disconnect_mode, popen_count, live >>

\* kill_worker, lines 65-72, called by the route /api/worker/kill (idle) or
\* by restart_worker (line 76), which goes on to start_worker(force=True)
HKill(t) ==
    /\ threads[t].pc \in {"idle", "restart_kill"}
    /\ process' = kill_worker(process)
    /\ live' = IF is_running(process) THEN live \ {process.pid} ELSE live
    /\ threads' = [threads EXCEPT ![t] =
                      IF @.pc = "idle" THEN ThreadIdle
                      ELSE [@ EXCEPT !.pc = "check", !.force = TRUE]]
    /\ UNCHANGED << disconnect_mode, popen_count >>

\* restart_worker, line 75: the latch is cleared
HRestartBegin(t) ==
    /\ threads[t].pc = "idle"
    /\ disconnect_mode' = FALSE
    /\ threads' = [threads EXCEPT ![t] = [@ EXCEPT !.pc = "restart_kill"]]
    /\ UNCHANGED << process, popen_count, live >>

\* the worker process of the handle ends by itself
HWorkerExits ==
    /\ is_running(process)
    /\ process' = [process EXCEPT !.os = "dead"]
    /\ live' = live \ {process.pid}
    /\ UNCHANGED << disconnect_mode, popen_count, threads >>

HandleNext ==
    /\ \/ \E t \in RequestThreads, force \in BOOLEAN : HStartBegin(t, force)
       \/ \E t \in RequestThreads : HStartCheck(t)
       \/ \E t \in RequestThreads : HStartPopen(t)
       \/ \E t \in RequestThreads : HStartAssign(t)
       \/ \E t \in RequestThreads : HKill(t)
       \/ \E t \in RequestThreads : HRestartBegin(t)
       \/ HWorkerExits
    /\ UNCHANGED << workerVars, mgrVars, riskVars, stage, engVars, srvVars,
                    orc, clock, risk_calls, sup_op >>

\* request threads racing on the process handle
SpecHandle == InitOneConfig /\ [][HandleNext]_vars

(***************************************************************************)
(* The bounded waits of the orchestrator: _wait_ping_ok (app.py lines      *)
(* 213-223) and the task-finish polling of _run_2_5_1_orchestrate (lines   *)
(* 386-452).  One unit of clock is one sleep of a polling loop.            *)
(***************************************************************************)
\* _wait_ping_ok(10) at line 395, in polling rounds
PingTimeoutTicks == 2

\* max_wait at line 405, in polling rounds
FinishTimeoutTicks == 2

\* _wait_ping_ok(restart_ping_timeout_s) at line 438, in polling rounds
RestartTimeoutTicks == 3

\* the clock readings a whole sequence can take
MaxWaitClock == PingTimeoutTicks + FinishTimeoutTicks + RestartTimeoutTicks + 2

\* what the worker does during a sequence: it answers, it never answers, or
\* every connection attempt raises
WorkerBehaviours == {"alive", "silent", "refusing"}

\* the outcomes of one rpc.request (lines 94-122) under a behaviour
RpcOutcomes(env) ==
    CASE env = "alive" -> {"ok", "not_ok", "raises"}
      [] env = "silent" -> {"not_ok", "raises"}
      [] OTHER -> {"raises"}

\* a wait whose deadline never passes
deadline_never(now, deadline) == FALSE

\* lines 215 and 409: the loop condition has become false
deadline_passed(now, deadline) == now >= deadline

\* time.sleep of a polling round (lines 222, 410)
sleep(now) == IF now < MaxWaitClock THEN now + 1 ELSE now

WaitPcs == {"ping_start", "finish", "ping_restart"}

WaitStep(step) == [name |-> "run_2_5_1", done |-> FALSE, step |-> step]

WaitReturn(ok, reason) ==
    [name |-> "run_2_5_1", done |-> TRUE, ok |-> ok, reason |-> reason,
     raised |-> FALSE, env |-> orc.env, at |-> orc.pc,
     deadline |-> orc.deadline]

\* lines 393-395: start_worker(), then _wait_ping_ok(10) takes its deadline
WaitBegin(env) ==
    LET sw == start_worker(process, disconnect_mode, FALSE)
    IN  /\ orc.pc = "idle"
        /\ popen_count + 2 <= MaxSpawns
        /\ process' = sw.process
        /\ popen_count' = IF sw.spawned THEN popen_count + 1 ELSE popen_count
        /\ clock' = 0
        /\ orc' = [pc |-> "ping_start", env |-> env,
                   deadline |-> PingTimeoutTicks]
        /\ sup_op' = WaitStep("begin")
        /\ UNCHANGED disconnect_mode

\* one round of _wait_ping_ok, lines 215-222: a PING that is answered ok
\* ends the wait with True, any other outcome is followed by a sleep
WaitPingRound(answer) ==
    /\ orc.pc \in {"ping_start", "ping_restart"}
    /\ ~deadline_passed(clock, orc.deadline)
    /\ answer \in RpcOutcomes(orc.env)
    /\ IF answer = "ok"
          THEN /\ IF orc.pc = "ping_start"
                     THEN /\ orc' = [orc EXCEPT !.pc = "run_case"]
                          /\ sup_op' = WaitStep("ping_ok")
                     ELSE /\ orc' = NoOrchestration
                          /\ sup_op' = WaitReturn(TRUE, "none")
               /\ UNCHANGED clock
          ELSE /\ clock' = sleep(clock)
               /\ sup_op' = WaitStep("ping_round")
               /\ UNCHANGED orc
    /\ UNCHANGED << process, disconnect_mode, popen_count >>

\* line 223 and lines 395-396, 438-439: _wait_ping_ok returned False
WaitPingExpired ==
    /\ orc.pc \in {"ping_start", "ping_restart"}
    /\ deadline_passed(clock, orc.deadline)
    /\ orc' = NoOrchestration
    /\ sup_op' = WaitReturn(FALSE, IF orc.pc = "ping_start"
                                      THEN "ping_timeout_start"
                                      ELSE "restart_failed_after_kill")
    /\ UNCHANGED << process, disconnect_mode, popen_count, clock >>

\* lines 399-406: RUN_CASE outside any try block; an exception of
\* rpc.request leaves the function
WaitRunCase(answer) ==
    /\ orc.pc = "run_case"
    /\ answer \in RpcOutcomes(orc.env)
    /\ CASE answer = "ok" ->
               /\ orc' = [orc EXCEPT !.pc = "finish",
                                     !.deadline = clock + FinishTimeoutTicks]
               /\ sup_op' = WaitStep("accepted")
          [] answer = "not_ok" ->
               /\ orc' = NoOrchestration
               /\ sup_op' = WaitReturn(FALSE, "rpc_failed_or_busy")
          [] OTHER ->
               /\ orc' = NoOrchestration
               /\ sup_op' = [WaitReturn(FALSE, "none") EXCEPT !.raised = TRUE]
    /\ UNCHANGED << process, disconnect_mode, popen_count, clock >>

\* one round of the task-finish polling, lines 409-421: sleep(1), then
\* GET_STATUS inside try/except; idle ends the loop
WaitFinishRound(answer) ==
    /\ orc.pc = "finish"
    /\ ~deadline_passed(clock, orc.deadline)
    /\ answer \in RpcOutcomes(orc.env) \cup
                  (IF orc.env = "alive" THEN {"busy"} ELSE {})
    /\ clock' = sleep(clock)
    /\ IF answer = "ok"
          THEN /\ orc' = [orc EXCEPT !.pc = "kill"]
               /\ sup_op' = WaitStep("finished")
          ELSE /\ sup_op' = WaitStep("finish_round")
               /\ UNCHANGED orc
    /\ UNCHANGED << process, disconnect_mode, popen_count >>

\* lines 423-424: the loop ended without rpc_finished
WaitFinishExpired ==
    /\ orc.pc = "finish"
    /\ deadline_passed(clock, orc.deadline)
    /\ orc' = NoOrchestration
    /\ sup_op' = WaitReturn(FALSE, "timeout_waiting_for_part1_2")
    /\ UNCHANGED << process, disconnect_mode, popen_count, clock >>

\* lines 429-438: kill_worker(), the disconnect window, start_worker(), and
\* _wait_ping_ok takes its deadline
WaitKillAndRestart ==
    LET killed == kill_worker(process)
        sw == start_worker(killed, disconnect_mode, FALSE)
    IN  /\ orc.pc = "kill"
        /\ process' = sw.process
        /\ popen_count' = IF sw.spawned THEN popen_count + 1 ELSE popen_count
        /\ clock' = sleep(clock)
        /\ orc' = [orc EXCEPT !.pc = "ping_restart",
                              !.deadline = clock' + RestartTimeoutTicks]
        /\ sup_op' = WaitStep("restart")
        /\ UNCHANGED disconnect_mode

\* the steps of a sequence that has begun
WaitRun ==
    \/ \E answer \in {"ok", "not_ok", "raises"} : WaitPingRound(answer)
    \/ WaitPingExpired
    \/ \E answer \in {"ok", "not_ok", "raises"} : WaitRunCase(answer)
    \/ \E answer \in {"ok", "not_ok", "raises", "busy"} : WaitFinishRound(answer)
    \/ WaitFinishExpired
    \/ WaitKillAndRestart

\* the worker process ends by itself (worker.py lines 406-441)
WaitWorkerExits ==
    /\ is_running(process)
    /\ process' = [process EXCEPT !.os = "dead"]
    /\ sup_op' = [name |-> "worker_exits"]
    /\ UNCHANGED << disconnect_mode, popen_count, orc, clock >>

WaitRest ==
    UNCHANGED << workerVars, mgrVars, riskVars, stage, engVars, srvVars,
                 threads, live, risk_calls >>

WaitNext ==
    /\ \/ \E env \in WorkerBehaviours : WaitBegin(env)
       \/ WaitRun
       \/ WaitWorkerExits
    /\ WaitRest

SpecWait == InitOneConfig /\ [][WaitNext]_vars

\* the thread that runs a sequence keeps running
SpecWaitFair == SpecWait /\ WF_vars(WaitRun /\ WaitRest)

WorkerPoolStep(t) ==
    PoolStep(t) /\ UNCHANGED << mgrVars, riskVars, stage, engVars, srvVars, supVars >>

MgrPoolStep(t) ==
    /\ \/ MgrPoolTake(t)
       \/ \E raised \in BOOLEAN : MgrWrappedTaskBody(t, raised)
       \/ MgrWrappedTaskRelease(t)
    /\ UNCHANGED << workerVars, riskVars, stage, engVars, srvVars, supVars >>

\* The pool thread is an OS thread that keeps being scheduled, and the
\* scenario body terminates (it returns or raises).
SpecTaskFair ==
    /\ SpecTask
    /\ \A t \in PoolThreads : WF_vars(WorkerPoolStep(t))
    /\ \A t \in PoolThreads : WF_vars(MgrPoolStep(t))

(***************************************************************************)
(* Case runner: properties.                                                *)
(***************************************************************************)
\* pool threads inside _wrapped_case / _wrapped_task
WorkerExecuting == {t \in PoolThreads : pool_pc[t] # "idle"}

MgrExecuting == {t \in PoolThreads : mgr_pool_pc[t] # "idle"}

\* accepted scenarios that have not finished: queued or executing
WorkerPending == Len(work_queue) + Cardinality(WorkerExecuting)

MgrPending == Len(mgr_queue) + Cardinality(MgrExecuting)

Accepted(c) == call_pc[c] = "done" /\ resp[c].kind = "data" /\ resp[c].accepted

Rejected(c) == call_pc[c] = "done" /\ resp[c].kind = "data" /\ ~resp[c].accepted

\* C1: in every reachable state of either runner at most one scenario body
\* is executing; indeed at most one accepted scenario is queued or executing.
C1_AtMostOneScenario ==
    /\ Cardinality(WorkerExecuting) <= 1
    /\ Cardinality(MgrExecuting) <= 1
    /\ WorkerPending <= 1
    /\ MgrPending <= 1

\* a scenario body is executing while a second RunCase has been turned away
C1_Witness ==
    /\ \E t \in PoolThreads : pool_pc[t] = "body"
    /\ \E c \in Callers : Rejected(c)

\* two calls that were both issued while the lock was free and that were in
\* flight at the same time, both answered
ConcurrentPair(c, d) ==
    /\ c # d
    /\ call_pc[c] = "done" /\ call_pc[d] = "done"
    /\ resp[c].kind = "data" /\ resp[d].kind = "data"
    /\ issued_idle[c] /\ issued_idle[d]
    /\ overlapped[c] /\ overlapped[d]

\* the acquire step never waits: it can be taken whatever the lock state
NeverBlocks == \A c \in Callers : call_pc[c] = "acquire" => ENABLED RunCaseAcquire(c)

\* C2 as stated: of two concurrent RunCase calls (known ids) issued when no
\* scenario is running exactly one is accepted and the other rejected, and
\* no call blocks.
C2_ExactlyOneAccepted ==
    /\ \A c, d \in Callers :
          ConcurrentPair(c, d) => (resp[c].accepted # resp[d].accepted)
    /\ NeverBlocks

\* C2 amended: of two such calls at least one is accepted, and exactly one
\* unless the accepted scenario released the lock while the other call was
\* still in flight; no call blocks.
C2_ExactlyOneUnlessFinished ==
    /\ \A c, d \in Callers :
          ConcurrentPair(c, d) =>
             /\ resp[c].accepted \/ resp[d].accepted
             /\ (~released[c] /\ ~released[d]) =>
                    (resp[c].accepted # resp[d].accepted)
    /\ NeverBlocks

\* two concurrent calls answered, one accepted and one rejected, while the
\* accepted scenario still holds the lock
C2_Witness ==
    \E c, d \in Callers :
        /\ ConcurrentPair(c, d)
        /\ ~released[c] /\ ~released[d]
        /\ resp[c].accepted /\ ~resp[d].accepted
        /\ task_lock

\* C3: once a scenario has been accepted (it is queued or executing) the
\* task lock is eventually released, whether the body returns or raises.
C3_LockEventuallyReleased ==
    /\ (WorkerPending > 0) ~> (~task_lock)
    /\ (MgrPending > 0) ~> (~mgr_task_lock)

\* a scenario raised, and the lock is free again
C3_Witness ==
    /\ outcome \in ErrorMessages
    /\ last_case_finished_at = "set"
    /\ ~task_lock
    /\ WorkerPending = 0

\* C4 as stated: every RUN_CASE is answered with data {accepted}, and
\* accepted is false iff the lock was held when the request was handled.
C4_AcceptedIffFree ==
    \A c \in Callers :
        call_pc[c] = "done" =>
            /\ resp[c].ok /\ resp[c].kind = "data"
            /\ ~resp[c].accepted <=> seen_busy[c]

\* C4 amended: a RUN_CASE naming a known case is answered with data
\* {accepted}, accepted being false iff the lock was held when the request
\* was handled; a RUN_CASE naming no known case is answered ok=false with an
\* error, whatever the lock state.
C4_AcceptedIffFreeKnownCase ==
    \A c \in Callers :
        call_pc[c] = "done" =>
            IF call_case[c] \in KnownCases
               THEN /\ resp[c].ok /\ resp[c].kind = "data"
                    /\ ~resp[c].accepted <=> seen_busy[c]
               ELSE ~resp[c].ok /\ resp[c].kind = "error"

\* a request for a known case has been rejected because the lock was held
C4_Witness ==
    \E c \in Callers :
        Rejected(c) /\ call_case[c] \in KnownCases /\ seen_busy[c]

\* no scenario has got past the entry of _wrapped_case since the last one
\* ended
NoScenarioStartedSince == \A t \in PoolThreads : pool_pc[t] \in {"idle", "entry"}

\* C5: after a scenario raised and the lock was released, GET_STATUS shows
\* last_error equal to the failure message until the next scenario starts;
\* after a scenario that returned normally it shows None.
C5_LastErrorReported ==
    (NoScenarioStartedSince /\ outcome # "none") =>
        get_status.last_error = (IF outcome = "ok" THEN None ELSE outcome)

\* the lock is free after a raised scenario and the status carries its message
C5_Witness ==
    /\ outcome \in ErrorMessages
    /\ NoScenarioStartedSince
    /\ ~get_status.busy
    /\ get_status.last_error = outcome

(***************************************************************************)
(* Risk monitor: properties.                                               *)
(***************************************************************************)
\* the calls that re-arm the latches
ReArmOps == {"reset_counters", "reset_risk", "set_thresholds"}

\* with the thresholds untouched since the counters were reset, a latch is
\* set exactly when its enabled threshold has been reached
LatchesFollowCounters ==
    fresh =>
        /\ warned_order_threshold <=>
              (max_order_count > 0 /\ order_count >= max_order_count)
        /\ warned_cancel_threshold <=>
              (max_cancel_count > 0 /\ cancel_count >= max_cancel_count)
        /\ warned_repeat_threshold <=>
              (max_repeat_count > 0 /\
               repeat_order_count + repeat_cancel_count >= max_repeat_count)

\* a set latch stays set until a re-arming call
LatchesStay ==
    op'.name \notin ReArmOps =>
        /\ warned_order_threshold => warned_order_threshold'
        /\ warned_cancel_threshold => warned_cancel_threshold'
        /\ warned_repeat_threshold => warned_repeat_threshold'

\* a call logs an alert exactly when it sets the latch
AlertWhenLatchSet ==
    /\ "order" \in alerts' <=> (~warned_order_threshold /\ warned_order_threshold')
    /\ "cancel" \in alerts' <=> (~warned_cancel_threshold /\ warned_cancel_threshold')
    /\ "repeat" \in alerts' <=> (~warned_repeat_threshold /\ warned_repeat_threshold')

\* C6: for each threshold T > 0, starting from reset counters, the latch is
\* false while the counter is below T, true from the T-th qualifying event
\* on, stays true through further events, and the alert is logged only by
\* the call that sets the latch, until reset_counters or set_thresholds
\* re-arms it.
C6_ThresholdLatch ==
    /\ []LatchesFollowCounters
    /\ [][LatchesStay /\ AlertWhenLatchSet]_vars

\* one order past the threshold: the latch is set and no second alert is
\* logged
C6_Witness ==
    /\ fresh
    /\ op.name = "check_order" /\ op.ret = "True"
    /\ max_order_count > 0
    /\ order_count > max_order_count
    /\ warned_order_threshold
    /\ "order" \notin alerts

Omitted(i) == op'.args[i].kind = "none"

\* C7: set_thresholds clears exactly the latches of the thresholds it
\* updates; the latch of an omitted threshold keeps its value.
C7_OnlyMatchingLatchesCleared ==
    [][op'.name = "set_thresholds" =>
          /\ IF Omitted(1)
                THEN warned_order_threshold' = warned_order_threshold
                ELSE warned_order_threshold' = FALSE
          /\ IF Omitted(2)
                THEN warned_cancel_threshold' = warned_cancel_threshold
                ELSE warned_cancel_threshold' = FALSE
          /\ IF Omitted(3)
                THEN warned_repeat_threshold' = warned_repeat_threshold
                ELSE warned_repeat_threshold' = FALSE]_vars

\* the value int() gives a supplied argument
Supplied(i) == IF op'.args[i].kind = "int" THEN {op'.args[i].val} ELSE {}

\* C8: set_thresholds changes only supplied threshold fields and the latches;
\* counters, both signature maps, session_order_ids and active are untouched.
C8_SetThresholdsFrame ==
    [][op'.name = "set_thresholds" =>
          /\ max_order_count' \in {max_order_count} \cup Supplied(1)
          /\ max_cancel_count' \in {max_cancel_count} \cup Supplied(2)
          /\ max_repeat_count' \in {max_repeat_count} \cup Supplied(3)
          /\ Omitted(1) => max_order_count' = max_order_count
          /\ Omitted(2) => max_cancel_count' = max_cancel_count
          /\ Omitted(3) => max_repeat_count' = max_repeat_count
          /\ op'.ret = "None" =>
                /\ ~Omitted(1) => max_order_count' = op'.args[1].val
                /\ ~Omitted(2) => max_cancel_count' = op'.args[2].val
                /\ ~Omitted(3) => max_repeat_count' = op'.args[3].val
          /\ get_metrics' = get_metrics
          /\ order_signature_count' = order_signature_count
          /\ cancel_signature_count' = cancel_signature_count
          /\ session_order_ids' = session_order_ids
          /\ active' = active]_vars

\* a partial update made while a repeated signature is on record
C8_Witness ==
    /\ op.name = "set_thresholds" /\ op.ret = "None"
    /\ op.args[1].kind = "int" /\ op.args[2].kind = "none"
    /\ max_order_count = op.args[1].val
    /\ repeat_order_count > 0
    /\ order_signature_count # EmptyDict
    /\ cancel_signature_count # EmptyDict

\* C9: an accepted check_order leaves repeat_order_count unchanged when its
\* signature has not been seen since the last reset and adds exactly 1 when
\* it has; the signature's occurrence count grows by exactly 1.
C9_RepeatCountedOnce ==
    [][(op'.name = "check_order" /\ op'.ret = "True") =>
          LET sig == order_signature(op'.req)
              seen == dict_get(order_signature_count, sig, 0)
          IN  /\ dict_get(order_signature_count', sig, 0) = seen + 1
              /\ repeat_order_count' =
                    repeat_order_count + (IF seen >= 1 THEN 1 ELSE 0)
              /\ order_count' = order_count + 1]_vars

\* the third send of one instruction, its price differing from the first
\* two below the rounding grain
C9_Witness ==
    /\ op.name = "check_order" /\ op.ret = "True"
    /\ op.req.price.sub # 0
    /\ dict_get(order_signature_count, order_signature(op.req), 0) = 3
    /\ repeat_order_count = 2

AllZero(m) ==
    /\ m.order_count = 0
    /\ m.cancel_count = 0
    /\ m.repeat_order_count = 0
    /\ m.repeat_cancel_count = 0
    /\ m.repeat_total = 0

\* C10: after reset_counters every counter of get_metrics is zero, both
\* signature maps are empty and the three latches are false, while
\* get_thresholds and active are as before the call.
C10_ResetCounters ==
    [][op'.name = "reset_counters" =>
          /\ AllZero(get_metrics')
          /\ order_signature_count' = EmptyDict
          /\ cancel_signature_count' = EmptyDict
          /\ ~warned_order_threshold'
          /\ ~warned_cancel_threshold'
          /\ ~warned_repeat_threshold'
          /\ get_thresholds' = get_thresholds
          /\ active' = active]_vars

\* counters reset while trading is paused and a threshold is enabled
C10_Witness ==
    /\ op.name = "reset_counters"
    /\ ~active
    /\ max_cancel_count > 0
    /\ session_order_ids # {}
    /\ AllZero(get_metrics)

\* the fields of TestRiskManager
RiskState ==
    << active, order_count, cancel_count, repeat_order_count,
       repeat_cancel_count, max_order_count, max_cancel_count,
       max_repeat_count, order_signature_count, cancel_signature_count,
       session_order_ids, last_log_order_count, last_log_cancel_count,
       warned_order_threshold, warned_cancel_threshold,
       warned_repeat_threshold >>

\* C11: a check_order that returns False (paused, invalid symbol, volume
\* over the ceiling without exemption, price off the tick) leaves every
\* field of the risk monitor unchanged and logs no threshold alert.
C11_RejectedOrderChangesNothing ==
    [][(op'.name = "check_order" /\ op'.ret = "False") =>
          /\ RiskState' = RiskState
          /\ alerts' = {}
          /\ op'.gate # "pass"]_vars

\* an off-tick order rejected while counters, signatures and a latch are set
C11_Witness ==
    /\ op.name = "check_order" /\ op.ret = "False"
    /\ op.gate = "off_tick"
    /\ order_count > 0
    /\ order_signature_count # EmptyDict
    /\ warned_order_threshold

\* C12: after emergency_stop a check_order on an otherwise valid request
\* returns False; once active is True again the same request returns True
\* and order_count grows by exactly 1.
C12_StopThenRestore ==
    /\ stage.s = "rejected" => stage.ret = "False"
    /\ stage.s = "retried" => (stage.ret = "True" /\ stage.counted = 1)

\* the request rejected while paused has been accepted after the restore,
\* with a contract on record
C12_Witness ==
    /\ stage.s = "retried"
    /\ contract.known
    /\ active

\* the calls that restore the gate
RestoreOps == {"reset_risk", "set_active"}

\* C13: emergency_stop is idempotent and sticky: once active is False it
\* stays False through every call but an explicit restore, and check_order
\* and check_cancel keep returning False meanwhile.
C13_StopIsSticky ==
    /\ [][(~active /\ op'.name \notin RestoreOps) =>
             /\ ~active'
             /\ op'.name \in {"check_order", "check_cancel"} => op'.ret = "False"]_vars
    /\ [][op'.name = "emergency_stop" =>
             /\ ~active'
             /\ ~active => RiskState' = RiskState]_vars

\* still paused after thresholds were changed and a cancel was counted
C13_Witness ==
    /\ ~active
    /\ op.name = "check_cancel" /\ op.ret = "False"
    /\ ~fresh
    /\ cancel_count > 0

\* C14: RESET_RISK, from any state including paused, leaves active True,
\* every counter zero, both signature maps empty and the latches cleared,
\* with the thresholds unchanged.
C14_ResetRisk ==
    [][op'.name = "reset_risk" =>
          /\ active'
          /\ AllZero(get_metrics')
          /\ order_signature_count' = EmptyDict
          /\ cancel_signature_count' = EmptyDict
          /\ ~warned_order_threshold'
          /\ ~warned_cancel_threshold'
          /\ ~warned_repeat_threshold'
          /\ get_thresholds' = get_thresholds]_vars

\* RESET_RISK arrived while the gate was closed
C14_Witness ==
    /\ op.name = "reset_risk"
    /\ op.paused
    /\ active
    /\ max_order_count > 0
    /\ AllZero(get_metrics)

\* C15: on_order_cancelled adds exactly 1 to cancel_count and evaluates the
\* cancel latch iff the order id is in session_order_ids; for any other
\* order id it changes no state.
C15_CancelCountedForSessionOrders ==
    [][op'.name = "on_order_cancelled" =>
          IF op'.id \in session_order_ids
             THEN /\ cancel_count' = cancel_count + 1
                  /\ warned_cancel_threshold' =
                        \/ warned_cancel_threshold
                        \/ (max_cancel_count > 0 /\
                            cancel_count' >= max_cancel_count)
             ELSE /\ RiskState' = RiskState
                  /\ alerts' = {}]_vars

\* a cancellation of an order of an earlier process arrives after session
\* orders were cancelled
C15_Witness ==
    /\ op.name = "on_order_cancelled"
    /\ op.id = ForeignOrderId
    /\ SessionOrderId \in session_order_ids
    /\ cancel_count > 0

\* C16: the risk monitor keeps a rejection counter: on_order_rejected
\* returns normally and get_metrics reports rejection_count.
C16_RejectionCounter ==
    /\ []("rejection_count" \in DOMAIN get_metrics)
    /\ [][op'.name = "on_order_rejected" => op'.ret = "None"]_vars

(***************************************************************************)
(* Engine: properties.                                                     *)
(***************************************************************************)
\* every registered callback was called once, in order, with the order's
\* id, code and reason
EachCallbackCalledOnce(order, calls) ==
    /\ Len(calls) = Len(on_reject_callbacks)
    /\ \A i \in 1..Len(calls) :
          /\ calls[i].cb = i
          /\ calls[i].payload.vt_orderid = order.vt_orderid
          /\ calls[i].payload.reject_code = order.reject_code
          /\ calls[i].payload.reject_reason = order.reject_reason

\* C17: _process_rejection treats an order as rejected iff it carries a
\* reject_code or has status REJECTED: such an order is stored in
\* rejected_orders under its vt_orderid, counted by the risk manager, and
\* every registered callback is invoked exactly once with its id, code and
\* reason; for any other order nothing is stored, counted or called.
C17_RejectionProcessed ==
    [][eng_op'.name = "process_rejection" =>
          LET order == eng_op'.order
          IN  IF order.reject_code # None \/ order.status = "REJECTED"
                 THEN /\ order.vt_orderid \in DOMAIN rejected_orders'
                      /\ rejected_orders'[order.vt_orderid] = order
                      /\ eng_op'.ret = "None"
                      /\ EachCallbackCalledOnce(order, eng_op'.calls)
                 ELSE /\ rejected_orders' = rejected_orders
                      /\ eng_op'.ret = "None"
                      /\ eng_op'.calls = << >>]_vars

\* C18: when a registered reject callback raises, _process_rejection does
\* not propagate the exception, the order is still stored and counted, and
\* every other registered callback is still invoked.
C18_CallbackExceptionContained ==
    [][(/\ eng_op'.name = "process_rejection"
        /\ is_rejection(eng_op'.order)
        /\ eng_op'.order.direction # None
        /\ \E i \in 1..Len(on_reject_callbacks) :
              on_reject_callbacks[i] = "raises") =>
          /\ eng_op'.ret = "None"
          /\ eng_op'.order.vt_orderid \in DOMAIN rejected_orders'
          /\ \A i \in 1..Len(on_reject_callbacks) :
                \E k \in 1..Len(eng_op'.calls) : eng_op'.calls[k].cb = i]_vars

\* C19: when _process_rejection raises, on_order does not propagate the
\* exception and completes: the order is recorded in orders,
\* on_order_submitted runs, and on_order_cancelled runs for a CANCELLED
\* order.
C19_OnOrderSurvivesRejectionFailure ==
    [][(eng_op'.name = "on_order" /\ eng_op'.rejection # "None") =>
          LET order == eng_op'.order
          IN  /\ eng_op'.ret = "None"
              /\ order.vt_orderid \in DOMAIN orders'
              /\ orders'[order.vt_orderid] = order
              /\ eng_op'.submitted
              /\ last_log_order_count' = order_count
              /\ eng_op'.cancelled <=> order.status = "CANCELLED"
              /\ order.status = "CANCELLED" =>
                    /\ op'.name = "on_order_cancelled"
                    /\ cancel_count' = cancel_count +
                          (IF order.vt_orderid \in session_order_ids
                              THEN 1 ELSE 0)]_vars

\* a CANCELLED session order carrying a reject_code: the rejection handling
\* raised, the order is on record and the cancellation was counted
C19_Witness ==
    /\ eng_op.name = "on_order"
    /\ eng_op.rejection = "AttributeError"
    /\ eng_op.order.status = "CANCELLED"
    /\ eng_op.order.vt_orderid \in DOMAIN orders
    /\ eng_op.order.vt_orderid \in DOMAIN rejected_orders
    /\ cancel_count > 0
    /\ op.name = "on_order_cancelled"

(***************************************************************************)
(* Control server: properties.                                             *)
(***************************************************************************)
PingFrame == JsonRequest("PING", "", << >>)

\* the server would answer a PING connection now
PingAnswerable ==
    ENABLED (Serve(PingFrame, TRUE) /\ UNCHANGED << mgrVars, stage, supVars >>)

\* C20: malformed JSON or a handler exception on one connection yields an
\* {ok: false, error} reply and neither ends the accept loop nor closes the
\* listening socket; a following well-formed PING is answered
\* {ok: true, data: {pong: true}}.
C20_ServerSurvivesBadRequests ==
    /\ [](srv_op.kind = "connection" => PingAnswerable)
    /\ [][srv_op'.kind = "connection" =>
             /\ running' /\ server_socket' = "listening"
             /\ (srv_op'.frame.wire = "json" /\ ~srv_op'.frame.parses) =>
                   srv_op'.caught = "json.loads"
             /\ srv_op'.caught \in {"json.loads", "handler"} =>
                   /\ srv_op'.reply.wire = "json"
                   /\ ~srv_op'.reply.ok
                   /\ srv_op'.reply.error # Absent
             /\ srv_op'.frame = PingFrame =>
                   srv_op'.reply = JsonOK(RequestId, "pong")]_vars

\* a PING answered on the connection after a malformed one
C20_Witness ==
    /\ srv_op.kind = "connection"
    /\ srv_op.frame = PingFrame
    /\ srv_op.after = "json.loads"
    /\ srv_op.sent
    /\ srv_op.reply = JsonOK(RequestId, "pong")

(***************************************************************************)
(* Tick gate: properties.                                                  *)
(***************************************************************************)
\* the gate answered a limit order at this price with the tick 0.2 known
TickChecked(p) ==
    /\ op.name = "check_order"
    /\ op.req.price = p
    /\ contract.known /\ contract.pricetick = 2000

\* C30 as stated: with the tick 0.2 known, check_order passes the price
\* 4660.0, rejects 4660.1 and passes 4660.0001.
C30_TickGateExamples ==
    /\ TickChecked(Price(46600000, 0)) => op.gate = "pass"
    /\ TickChecked(Price(46601000, 0)) => op.gate = "off_tick"
    /\ TickChecked(Price(46600001, 0)) => op.gate = "pass"

\* C30 amended: with the tick 0.2 known, check_order passes 4660.0, rejects
\* 4660.1, rejects 4660.0001 (1e-4 from a multiple of the tick, more than
\* the tolerance 1e-6) and passes 4660.0000005 and 4659.9999995, which lie
\* within 1e-6 of a multiple.
C30_TickGateWithinEps ==
    /\ TickChecked(Price(46600000, 0)) => op.gate = "pass"
    /\ TickChecked(Price(46601000, 0)) => op.gate = "off_tick"
    /\ TickChecked(Price(46600001, 0)) => op.gate = "off_tick"
    /\ TickChecked(Price(46600000, 50000)) => op.gate = "pass"
    /\ TickChecked(Price(46599999, SubPerUnit - 50000)) => op.gate = "pass"

C30_Witness ==
    /\ TickChecked(Price(46600000, 50000))
    /\ op.ret = "True"
    /\ order_count > 0

(***************************************************************************)
(* Cancel requests and the wire: properties.                               *)
(***************************************************************************)
\* C29: register_cancel_request runs only for a cancel that is handed to the
\* gateway: a cancel_order call that sends nothing leaves every cancel
\* signature count and repeat_cancel_count as they were.
C29_CancelCountedOnlyWhenSent ==
    [][(eng_op'.name = "cancel_order" /\ ~eng_op'.sent) =>
          /\ cancel_signature_count' = cancel_signature_count
          /\ repeat_cancel_count' = repeat_cancel_count]_vars

(***************************************************************************)
(* Control protocol: properties.                                           *)
(***************************************************************************)
\* C21: the reply to a JSON-framed request is one object that echoes the
\* request_id of the request, carries a boolean ok, and carries data when ok
\* is true or error when ok is false, for every request type and for a
\* payload that fails to parse.
C21_ReplyEnvelope ==
    (srv_op.kind = "connection" /\ srv_op.frame.wire = "json") =>
        LET r == srv_op.reply
        IN  /\ r.wire = "json"
            /\ r.request_id = srv_op.frame.request_id
            /\ r.ok \in BOOLEAN
            /\ r.ok => (r.data # Absent /\ r.error = Absent)
            /\ ~r.ok => (r.error # Absent /\ r.data = Absent)

\* the counters, thresholds and latches of the risk monitor
RiskCounters ==
    << order_count, cancel_count, repeat_order_count, repeat_cancel_count,
       max_order_count, max_cancel_count, max_repeat_count,
       order_signature_count, cancel_signature_count, session_order_ids,
       warned_order_threshold, warned_cancel_threshold,
       warned_repeat_threshold >>

\* C22: for a payload that is not JSON the server runs the operation the
\* verb names, whatever its case (disconnect drops the gateway, reconnect
\* restores it, pause stops trading), runs nothing else, and answers with
\* the bytes OK.
C22_LegacyVerbs ==
    [][(srv_op'.kind = "connection" /\ srv_op'.frame.wire = "text") =>
          LET word == srv_op'.frame.type
          IN  /\ srv_op'.reply = TextOK
              /\ UNCHANGED << RiskCounters, workerVars, orders,
                              rejected_orders >>
              /\ word \in {"PAUSE", "pause"} =>
                    ~active' /\ gateways' = gateways
              /\ word = "DISCONNECT" =>
                    /\ gateways' = gateways \ {gateway_name}
                    /\ active' = active
              /\ word = "Reconnect" =>
                    /\ gateways' = gateways \cup {gateway_name}
                    /\ active' = active
              /\ word = "HELLO" =>
                    active' = active /\ gateways' = gateways]_vars

\* lower-case pause stopped trading and was answered OK
C22_Witness ==
    /\ srv_op.kind = "connection"
    /\ srv_op.frame = TextCommand("pause")
    /\ srv_op.sent
    /\ srv_op.reply = TextOK
    /\ ~active
    /\ srv_op.after = "json.loads"

(***************************************************************************)
(* Process supervisor and orchestrations: properties.                      *)
(***************************************************************************)
\* C23: start_worker(force=False) spawns nothing while disconnect_mode is
\* set; start_worker with the worker running spawns nothing and leaves the
\* handle as it is; in every other case it spawns exactly one process.
C23_StartWorker ==
    [][sup_op'.name = "start_worker" =>
          LET refused == disconnect_mode /\ ~sup_op'.force
              kept == popen_count' = popen_count /\ process' = process
          IN  /\ refused => kept
              /\ is_running(process) => kept
              /\ (~refused /\ ~is_running(process)) =>
                    /\ popen_count' = popen_count + 1
                    /\ process' = Popen(popen_count')
                    /\ process'.pid # process.pid]_vars

\* a start that is not forced replaced a worker that had died
C23_Witness ==
    /\ sup_op.name = "start_worker"
    /\ ~sup_op.force
    /\ sup_op.spawned
    /\ popen_count = 2
    /\ is_running(process)

\* the simulated outage: the latch is set and no worker runs
Down == disconnect_mode /\ ~is_running(process)

\* the steps that may end an outage
Revives(o) ==
    \/ o.name \in HardOps /\ ~o.done /\ o.step = "begin"
    \/ o.name \in {"restart_worker", "exit_disconnect_mode"}
    \/ o.name = "start_worker" /\ o.force

C25_SecondHardDisconnectNoOp ==
    /\ (sup_op.name = "hard_disconnect" /\ ~sup_op.done
           /\ sup_op.step = "begin" /\ orc.pc = "status" /\ orc.immediate)
          => ~sup_op.spawned
    /\ (sup_op.name = "hard_disconnect" /\ sup_op.done /\ sup_op.immediate)
          => (~sup_op.ok /\ sup_op.spawns = 0 /\ sup_op.kills = 0)

C27_BusyRefusal ==
    [][(/\ sup_op'.name \in HardOps
        /\ orc.pc = "status"
        /\ Reachable(process) /\ task_lock) =>
          /\ sup_op'.done
          /\ ~sup_op'.ok
          /\ sup_op'.reason = "busy"
          /\ sup_op'.kills = 0
          /\ process' = process]_vars

\* the combined orchestration refused by a worker that runs a scenario
C27_Witness ==
    /\ sup_op.name = "hard_orchestrate"
    /\ sup_op.done
    /\ sup_op.reason = "busy"
    /\ sup_op.busy
    /\ is_running(process)
    /\ task_lock

C36_WindowKeepsWorkerDown ==
    [][(/\ orc.pc = "window"
        /\ ~is_running(process)
        /\ \/ sup_op'.name = "route_run_case"
           \/ sup_op'.name = "start_worker" /\ ~sup_op'.force) =>
          /\ ~sup_op'.spawned
          /\ ~is_running(process')]_vars

\* C32: under any interleaving of start_worker, kill_worker and
\* restart_worker calls of different threads at most one worker process
\* runs, and every running worker process is the one the handle refers to
\* or is about to be stored in it by the thread that spawned it.
C32_HandleGuarded ==
    /\ Cardinality(live) <= 1
    /\ \A pid \in live :
          \/ process.pid = pid
          \/ \E t \in RequestThreads :
                threads[t].pc = "assign" /\ threads[t].pid = pid

\* C35: every sequence that has begun ends; the clock of a wait never passes
\* its deadline; a wait that ends in failure ends at its deadline with the
\* failure reason of that wait; and a sequence whose worker never answers, or
\* whose every RPC attempt raises, ends with ping_timeout_start.
C35_WaitsEnd ==
    /\ (orc.pc # "idle") ~> (orc.pc = "idle")
    /\ [](orc.pc \in WaitPcs => clock <= orc.deadline)
    /\ []((sup_op.name = "run_2_5_1" /\ sup_op.done /\ ~sup_op.ok
              /\ sup_op.at \in WaitPcs) =>
             /\ clock >= sup_op.deadline
             /\ ~sup_op.raised
             /\ sup_op.reason =
                   (CASE sup_op.at = "ping_start" -> "ping_timeout_start"
                      [] sup_op.at = "finish" -> "timeout_waiting_for_part1_2"
                      [] OTHER -> "restart_failed_after_kill"))
    /\ []((sup_op.name = "run_2_5_1" /\ sup_op.done
              /\ sup_op.env \in {"silent", "refusing"}) =>
             (~sup_op.ok /\ sup_op.reason = "ping_timeout_start"))

\* the task-finish polling ran out with a worker that answered busy each time
C35_Witness ==
    /\ sup_op.name = "run_2_5_1"
    /\ sup_op.done
    /\ sup_op.reason = "timeout_waiting_for_part1_2"
    /\ clock = FinishTimeoutTicks
    /\ orc.pc = "idle"

(***************************************************************************)
(* Risk monitor: counters, latches and requests.                           *)
(***************************************************************************)
\* no entry of the signature dict d has gone or dropped in e
DictNotBelow(d, e) ==
    \A sig \in DOMAIN d : sig \in DOMAIN e /\ e[sig] >= d[sig]

\* e is d with the count of sig raised by one and nothing else changed
DictRaisedAt(d, e, sig) ==
    /\ dict_get(e, sig, 0) = dict_get(d, sig, 0) + 1
    /\ DOMAIN e = DOMAIN d \cup {sig}
    /\ \A other \in DOMAIN d \ {sig} : e[other] = d[other]

\* C34: a step other than reset_counters (reset_risk calls it) lowers none
\* of order_count, cancel_count, repeat_order_count, repeat_cancel_count
\* and no signature's occurrence count; a check_order that passes and a
\* register_cancel_request raise the count of their signature by exactly 1.
C34_CountersMonotone ==
    [][op'.name \notin {"reset_counters", "reset_risk"} =>
          /\ order_count' >= order_count
          /\ cancel_count' >= cancel_count
          /\ repeat_order_count' >= repeat_order_count
          /\ repeat_cancel_count' >= repeat_cancel_count
          /\ repeat_order_count' + repeat_cancel_count' >=
                repeat_order_count + repeat_cancel_count
          /\ DictNotBelow(order_signature_count, order_signature_count')
          /\ DictNotBelow(cancel_signature_count, cancel_signature_count')
          /\ (op'.name = "check_order" /\ op'.ret = "True") =>
                DictRaisedAt(order_signature_count, order_signature_count',
                             order_signature(op'.req))
          /\ (op'.name = "register_cancel_request") =>
                DictRaisedAt(cancel_signature_count, cancel_signature_count',
                             cancel_signature(op'.req))]_vars

\* a cancel request counted for the second time next to a counted order
C34_Witness ==
    /\ op.name = "register_cancel_request"
    /\ dict_get(cancel_signature_count, cancel_signature(op.req), 0) = 2
    /\ repeat_cancel_count = 1
    /\ order_count = 1

\* a latch that is set has an enabled threshold which its counter has reached
LatchJustified(warned, threshold, counter) ==
    warned => (int_or_zero(threshold) > 0 /\ counter >= int_or_zero(threshold))

\* C37: in every reachable state each warned latch is set only if its
\* threshold is > 0 and its counter has reached it, and an alert is emitted
\* only for a threshold > 0.
C37_LatchOnlyWhenReached ==
    /\ LatchJustified(warned_order_threshold, max_order_count, order_count)
    /\ LatchJustified(warned_cancel_threshold, max_cancel_count, cancel_count)
    /\ LatchJustified(warned_repeat_threshold, max_repeat_count,
                      repeat_total(repeat_order_count, repeat_cancel_count))
    /\ "order" \in alerts => int_or_zero(max_order_count) > 0
    /\ "cancel" \in alerts => int_or_zero(max_cancel_count) > 0
    /\ "repeat" \in alerts => int_or_zero(max_repeat_count) > 0

\* the thresholds and the latches of the risk monitor
ThresholdsAndLatches ==
    << max_order_count, max_cancel_count, max_repeat_count,
       warned_order_threshold, warned_cancel_threshold,
       warned_repeat_threshold >>

\* C40: a SET_THRESHOLDS request that is answered with ok false leaves the
\* three thresholds and the three warned latches as they were.
C40_FailedSetThresholdsChangesNothing ==
    [][(/\ srv_op'.kind = "connection"
        /\ srv_op' # srv_op
        /\ srv_op'.frame.type = "SET_THRESHOLDS"
        /\ srv_op'.sent
        /\ srv_op'.reply.wire = "json"
        /\ ~srv_op'.reply.ok) =>
          ThresholdsAndLatches' = ThresholdsAndLatches]_vars

\* C38: with one caller at a time, order_count is the sum of the order
\* signatures' occurrence counts, repeat_order_count is order_count minus the
\* number of distinct order signatures, and repeat_cancel_count is the sum
\* of the cancel signatures' occurrence counts minus their number.
C38_CountersMatchSignatures ==
    /\ order_count = dict_total(order_signature_count)
    /\ repeat_order_count =
          order_count - Cardinality(DOMAIN order_signature_count)
    /\ repeat_cancel_count =
          dict_total(cancel_signature_count)
            - Cardinality(DOMAIN cancel_signature_count)

\* three counted orders of two distinct signatures
C38_Witness ==
    /\ order_count = 3
    /\ Cardinality(DOMAIN order_signature_count) = 2
    /\ repeat_order_count = 1

\* C39: task_lock is held only while a scenario is queued or executing, or
\* while the call that took the lock is handing its scenario to the pool;
\* after a RUN_CASE for an unknown id, or one whose submission failed, the
\* lock is not held with nothing pending.
C39_LockOnlyWhilePending ==
    task_lock =>
        \/ work_queue # << >>
        \/ \E t \in PoolThreads : pool_pc[t] # "idle"
        \/ \E c \in Callers : call_pc[c] = "submit"

\* every risk-monitor thread is outside the monitor
RiskQuiet == \A t \in RiskThreads : risk_calls[t].pc = "idle"

\* C33: whatever the interleaving of check_order, on_order_cancelled,
\* reset_counters and set_thresholds, once the calls have returned the
\* monitor is in a state a serial order of them leaves: the order counter
\* equals the occurrences the signatures record, and the logged cancel count
\* is the cancel counter (or the reset value while the counter is 0).
C33_SerialOutcome ==
    RiskQuiet =>
        /\ order_count = dict_total(order_signature_count)
        /\ \/ cancel_count = 0 /\ last_log_cancel_count = -1
           \/ cancel_count > 0 /\ last_log_cancel_count = cancel_count

====
